---- MODULE Spec2Model ----
(***************************************************************************)
(* A model of the ERAIF orchestration core:                                *)
(*   - AIMLPipeline (src/src/ai/pipeline.py): the case pipeline graph, its *)
(*     node handlers and the triage router;                                *)
(*   - EmergencySystem (src/src/core/emergency_system.py): the facade that *)
(*     processes a case, selects a workflow, summarises and alerts, and    *)
(*     the emergency mode flags with activate / deactivate;                *)
(*   - the provider boundary (src/src/ai/agents.py, workflows.py): what a  *)
(*     provider call hands back when it succeeds and when it fails.        *)
(*                                                                         *)
(* Spec      the facade: cases run concurrently with mode changes.         *)
(* FairSpec  Spec with the event loop's fairness for started cases.        *)
(* SpecPure  the pure functions applied to inputs drawn from bounded sets. *)
(* SpecRouter  the triage router on the states a triage node can leave.    *)
(* SpecOps     Spec with the facade's other operations.                    *)
(* SpecStatus  cases processed while the status queries are called.        *)
(* SpecCore    ERAIFCore (src/src/eraif_core.py): activate / deactivate.   *)
(* SpecModes   ERAIFCore next to the facade's mode flags.                  *)
(* SpecQueue   ERAIFCore with studies arriving in its emergency queue.     *)
(* SpecLife    ERAIFCore with initialize and shutdown.                     *)
(* SpecPolicy  the emergency configuration by severity.                    *)
(* SpecGraphs  the pipeline graph and the workflow graphs run by the engine*)
(*             (FairSpecGraphs: the engine keeps running).                 *)
(* SpecReplay  the case pipeline run twice on the same data.               *)
(***************************************************************************)
EXTENDS Integers, Sequences, FiniteSets, TLC

VARIABLES
    emergency_mode_active,        \* EmergencySystem.emergency_mode_active
    emergency_mode_reason,        \* EmergencySystem.emergency_mode_reason
    emergency_mode_activated_at,  \* EmergencySystem.emergency_mode_activated_at
    active_cases,                 \* EmergencySystem.active_cases: case -> status
    system_metrics,               \* EmergencySystem.system_metrics
    clock,                        \* datetime.now() as the facade reads it (a logical clock)
    act_call,                     \* the activate_emergency_mode calls (found_active:
                                  \* the mode was active when the call began)
    deact_log,                    \* what the deactivate_emergency_mode calls returned, in order
    case_pc,                      \* where each process_emergency_case call stands
    case_data,                    \* the case_data argument of each call
    state,                        \* the PipelineState of each call's session
    graph_run,                    \* the graph engine's position in each session
    faults,                       \* the provider failures injected into each case
    ai_results,                   \* what ai_pipeline.process_emergency returned
    workflow_type,                \* the workflow chosen for each case
    case_summary,                 \* the summary _generate_case_summary built
    case_result,                  \* what process_emergency_case returned
    mode_at_start,                \* emergency_mode_active when the case started
    fn_input,                     \* SpecPure: the arguments
    fn_output,                    \* SpecPure: the results
    emergency_mode,               \* ERAIFCore.emergency_mode
    emergency_id,                 \* ERAIFCore.emergency_id (0: None)
    emergency_start_time,         \* ERAIFCore.emergency_start_time (0: None)
    protocol_mode,                \* the mode each protocol handler was last given
    emergency_monitoring,         \* the monitor's emergency monitoring runs
    core_clock,                   \* the time ERAIFCore reads
    core_call,                    \* the calls of ERAIFCore's mode methods
    emergency_queue,              \* ERAIFCore.emergency_queue
    processed_studies,            \* the studies _process_emergency_study was given, in order
    system_status,                \* ERAIFCore.system_status
    handlers_up,                  \* the handlers and the monitor that run
    life_call,                    \* the initialize and shutdown calls of ERAIFCore
    workflow_state,               \* the WorkflowState of the execute_workflow call
    workflow_run,                 \* the graph engine's position in that workflow
    workflow_result,              \* what execute_workflow returned
    wall_clock,                   \* datetime.now() as the pipeline's nodes read it
    replay_input,                 \* the case and the provider results both replays get
    replay_run                    \* the two process_emergency runs of a replay

facadeVars == <<emergency_mode_active, emergency_mode_reason,
                emergency_mode_activated_at, active_cases, system_metrics, clock,
                act_call, deact_log>>
caseVars == <<case_pc, case_data, state, graph_run, faults, ai_results,
              workflow_type, case_summary, case_result, mode_at_start>>
pureVars == <<fn_input, fn_output>>
coreVars == <<emergency_mode, emergency_id, emergency_start_time, protocol_mode,
              emergency_monitoring, core_clock, core_call>>
lifeVars == <<emergency_queue, processed_studies, system_status, handlers_up,
              life_call>>
wfVars == <<workflow_state, workflow_run, workflow_result>>
replayVars == <<wall_clock, replay_input, replay_run>>
vars == <<facadeVars, caseVars, pureVars, coreVars, lifeVars, wfVars, replayVars>>

(***************************************************************************)
(* Bounds of the model.                                                    *)
(***************************************************************************)
NumCases == 1
MaxActivations == 2
MaxDeactivations == 2
MaxFaults == 1
MaxFindings == 1

Cases == 1..NumCases
ActCalls == 1..MaxActivations

(***************************************************************************)
(* Values.                                                                 *)
(***************************************************************************)
None == "None"
\* A key that a dict does not hold.
Missing == "<missing>"

\* The reason the k-th activate_emergency_mode call is given.
ReasonOf(k) == IF k % 2 = 1 THEN "flood" ELSE "quake"
\* The severity the k-th activate_emergency_mode call is given.
SeverityOf(k) == IF k % 2 = 1 THEN "critical" ELSE "high"

\* EmergencySystem._configure_emergency_mode: the configuration dict, which
\* the caller puts into its result and stores nowhere (thresholds in
\* hundredths).
_configure_emergency_mode_one_threshold(severity) ==
    [priority_threshold |->
        IF severity \in {"high", "critical"} THEN "HIGH" ELSE "MEDIUM",
     batch_processing |-> TRUE,
     compression_enabled |-> TRUE,
     timeout_reduced |-> TRUE,
     ai_confidence_threshold |-> 70]

_configure_emergency_mode(severity) ==
    [priority_threshold |->
        IF severity \in {"high", "critical"} THEN "HIGH" ELSE "MEDIUM",
     batch_processing |-> TRUE,
     compression_enabled |-> TRUE,
     timeout_reduced |-> TRUE,
     ai_confidence_threshold |-> IF severity = "critical" THEN 60 ELSE 70]

\* Thresholds written into _determine_workflow_type.
PriorityCasesThreshold == 5
OccupancyThreshold == 85

\* TriageAgent.triage_categories: category -> its "priority" entry (an integer,
\* written here as a string of its own so that it compares with the strings).
triage_categories ==
    [immediate |-> "int:1", urgent |-> "int:2",
     less_urgent |-> "int:3", non_urgent |-> "int:4"]

(***************************************************************************)
(* AIMLPipeline._triage_router. triage_results is the dict the triage node *)
(* stored; priority is Missing when the dict has no such key.              *)
(***************************************************************************)
_triage_router_unknown_routine(triage_results) ==
    LET priority == IF triage_results.priority = Missing
                    THEN "routine" ELSE triage_results.priority
    IN  IF priority \in {"critical", "life_threatening"} THEN "critical"
        ELSE IF priority \in {"urgent", "high"} THEN "urgent"
        ELSE "routine"

_triage_router_unknown_dropped(triage_results) ==
    LET priority == IF triage_results.priority = Missing
                    THEN "routine" ELSE triage_results.priority
    IN  IF priority \in {"critical", "life_threatening"} THEN "critical"
        ELSE IF priority \in {"urgent", "high"} THEN "urgent"
        ELSE IF priority \in {"routine", "normal"} THEN "routine"
        ELSE "dropped"

_triage_router(triage_results) ==
    LET priority == IF triage_results.priority = Missing
                    THEN "routine" ELSE triage_results.priority
    IN  IF priority \in {"critical", "life_threatening"} THEN "critical"
        ELSE IF priority \in {"urgent", "high"} THEN "urgent"
        ELSE IF priority \in {"routine", "normal"} THEN "routine"
        ELSE "monitoring"

(***************************************************************************)
(* EmergencySystem._determine_workflow_type, with self.emergency_mode_     *)
(* active as the third argument. ai_results.triage_priority is Missing     *)
(* when ai_results holds no triage_results or these hold no priority.      *)
(***************************************************************************)
_determine_workflow_type_transfer_first(cd, air, active) ==
    IF cd.incident_type = "mass_casualty" THEN "mass_casualty"
    ELSE IF active THEN "disaster_response"
    ELSE IF cd.requires_transfer THEN "patient_transfer"
    ELSE IF /\ air.triage_priority \in {"critical", "high"}
            /\ cd.concurrent_priority_cases > PriorityCasesThreshold
         THEN "resource_optimization"
    ELSE IF cd.occupancy_percent > OccupancyThreshold THEN "surge_capacity"
    ELSE "resource_optimization"

_determine_workflow_type(cd, air, active) ==
    IF cd.incident_type = "mass_casualty" THEN "mass_casualty"
    ELSE IF active THEN "disaster_response"
    ELSE IF /\ air.triage_priority \in {"critical", "high"}
            /\ cd.concurrent_priority_cases > PriorityCasesThreshold
         THEN "resource_optimization"
    ELSE IF cd.requires_transfer THEN "patient_transfer"
    ELSE IF cd.occupancy_percent > OccupancyThreshold THEN "surge_capacity"
    ELSE "resource_optimization"

(***************************************************************************)
(* The case pipeline graph of AIMLPipeline._build_graph.                   *)
(***************************************************************************)
END == "END"
\* The engine's position once a node handler has raised.
RAISED == "RAISED"

Nodes == {"intake", "triage", "imaging_analysis", "clinical_decision",
          "resource_optimization", "emergency_coordination", "monitoring"}

EntryPoint == "intake"

\* The label -> node mapping of the conditional edge out of triage.
TriageEdges ==
    [critical |-> "imaging_analysis", urgent |-> "imaging_analysis",
     routine |-> "clinical_decision", monitoring |-> "monitoring"]

\* The node the engine runs after `node` has returned state s; a label the
\* mapping does not hold ends the run with an error.
NextNode_urgent_skips_imaging(node, s) ==
    CASE node = "intake" -> "triage"
      [] node = "triage" ->
            LET label == _triage_router(s.triage_results)
            IN  IF label = "critical" THEN "imaging_analysis"
                ELSE IF label \in {"urgent", "routine"} THEN "clinical_decision"
                ELSE "monitoring"
      [] node = "imaging_analysis" -> "clinical_decision"
      [] node = "clinical_decision" -> "resource_optimization"
      [] node = "resource_optimization" -> "emergency_coordination"
      [] node = "emergency_coordination" -> END
      [] node = "monitoring" -> END

NextNode(node, s) ==
    CASE node = "intake" -> "triage"
      [] node = "triage" ->
            LET label == _triage_router(s.triage_results)
            IN  IF label \in DOMAIN TriageEdges THEN TriageEdges[label] ELSE RAISED
      [] node = "imaging_analysis" -> "clinical_decision"
      [] node = "clinical_decision" -> "resource_optimization"
      [] node = "resource_optimization" -> "emergency_coordination"
      [] node = "emergency_coordination" -> END
      [] node = "monitoring" -> END

\* PipelineState as process_emergency creates it.
InitialPipelineState ==
    [current_step |-> "initial",
     workflow_status |-> "pending",
     triage_results |-> [priority |-> Missing, error |-> None],
     imaging_results |-> "empty",
     ai_recommendations |-> "empty",
     metadata |-> {},
     intake_timestamp |-> None]

(***************************************************************************)
(* The provider boundary: what the agents hand back to the node handlers.  *)
(***************************************************************************)
\* The priorities the triage provider's JSON may carry (Missing: none).
ProviderPriorities == {"critical", "urgent", "routine", "unknown", Missing}

\* TriageAgent.analyze_emergency. outcome.kind is "ok" (the provider's JSON
\* parsed, carrying outcome.priority), "bad_json" or "exception".
analyze_emergency(outcome) ==
    CASE outcome.kind = "ok" ->
            [priority |-> IF outcome.priority \in DOMAIN triage_categories
                          THEN triage_categories[outcome.priority]
                          ELSE outcome.priority,
             error |-> None]
      [] outcome.kind = "bad_json" ->
            [priority |-> "urgent", error |-> "JSON parsing failed"]
      [] outcome.kind = "exception" ->
            [priority |-> "urgent", error |-> "provider"]

TriageOutcomes ==
    [kind : {"ok"}, priority : ProviderPriorities]
      \cup [kind : {"exception"}, priority : {Missing}]

(***************************************************************************)
(* The node handlers, as functions of the state they are handed.           *)
(***************************************************************************)
_intake_node_step_by_time(s, now) ==
    [s EXCEPT !.metadata = @ \cup {"intake"},
              !.intake_timestamp = now,
              !.current_step = IF now = 0 THEN "intake_complete"
                               ELSE "intake_late"]

\* now: the datetime.now() reading stored as metadata["intake_timestamp"].
_intake_node(s, now) ==
    [s EXCEPT !.metadata = @ \cup {"intake"},
              !.intake_timestamp = now,
              !.current_step = "intake_complete"]

_triage_node(s, triage_result) ==
    [s EXCEPT !.triage_results = triage_result,
              !.current_step = "triage_complete"]

\* analyzer_ok: ImagingAnalysisAgent.analyze_study returned the provider's
\* analysis (otherwise its error dict, which the node stores as a result).
_imaging_analysis_node(s, has_studies, analyzer_ok) ==
    [s EXCEPT !.imaging_results =
                  IF ~has_studies THEN "no_studies"
                  ELSE IF analyzer_ok THEN "analyzed" ELSE "analyzed_error",
              !.current_step = "imaging_analysis_complete"]

\* generator_ok: generate_clinical_recommendations returned recommendations
\* (otherwise the empty list of its except branch).
_clinical_decision_node(s, generator_ok) ==
    [s EXCEPT !.ai_recommendations = IF generator_ok THEN "generated" ELSE "none",
              !.current_step = "clinical_decision_complete"]

\* The plan stored in metadata is whatever optimize_resources returned, its
\* error dict included; likewise the coordination plan below.
_resource_optimization_node(s) ==
    [s EXCEPT !.metadata = @ \cup {"resource_optimization"},
              !.current_step = "resource_optimization_complete"]

_emergency_coordination_node(s) ==
    [s EXCEPT !.metadata = @ \cup {"coordination_plan"},
              !.current_step = "emergency_coordination_complete",
              !.workflow_status = "completed"]

_monitoring_node_keeps_status(s) ==
    [s EXCEPT !.metadata = @ \cup {"monitoring_config"},
              !.current_step = "monitoring_active"]

_monitoring_node(s) ==
    [s EXCEPT !.metadata = @ \cup {"monitoring_config"},
              !.current_step = "monitoring_active",
              !.workflow_status = "monitoring"]

(***************************************************************************)
(* Spec: the facade. Initial state: EmergencySystem.__init__.              *)
(***************************************************************************)
\* config.ai.auto_alert_threshold, in hundredths.
AutoAlertThreshold == 90
Confidences == {85, 90}
FindingSeqs == UNION {[1..n -> Confidences] : n \in 0..MaxFindings}

\* The case_data a caller passes to process_emergency_case.
CaseDataSet ==
    [incident_type : {"mass_casualty", Missing},
     requires_transfer : {FALSE},
     concurrent_priority_cases : {0},
     occupancy_percent : {0},
     has_imaging_studies : BOOLEAN]

NoCaseData ==
    [incident_type |-> Missing, requires_transfer |-> FALSE,
     concurrent_priority_cases |-> 0, occupancy_percent |-> 0,
     has_imaging_studies |-> FALSE]
NoRun == [next |-> None, executed |-> <<>>, error |-> None]
NoAiResults ==
    [status |-> None, triage_priority |-> Missing, error |-> None,
     session_id |-> 0]
NoSummary ==
    [status |-> None, emergency_mode_active |-> FALSE, workflow_type |-> None,
     critical_findings |-> <<>>]
NoResult == [status |-> None, error |-> None]
NoActCall ==
    [pc |-> "idle", reason |-> None, found_active |-> FALSE,
     result |-> [status |-> None, reason |-> None, emergency_config |-> None]]

FacadeInit ==
    /\ emergency_mode_active = FALSE
    /\ emergency_mode_reason = None
    /\ emergency_mode_activated_at = 0
    /\ active_cases = [c \in Cases |-> "absent"]
    /\ system_metrics = [cases_processed |-> 0, ai_analyses_completed |-> 0,
                         workflows_executed |-> 0, alerts_generated |-> 0]
    /\ clock = 0
    /\ act_call = [k \in ActCalls |-> NoActCall]
    /\ deact_log = <<>>

CaseInit ==
    /\ case_pc = [c \in Cases |-> "idle"]
    /\ case_data = [c \in Cases |-> NoCaseData]
    /\ state = [c \in Cases |-> InitialPipelineState]
    /\ graph_run = [c \in Cases |-> NoRun]
    /\ faults = [c \in Cases |-> {}]
    /\ ai_results = [c \in Cases |-> NoAiResults]
    /\ workflow_type = [c \in Cases |-> None]
    /\ case_summary = [c \in Cases |-> NoSummary]
    /\ case_result = [c \in Cases |-> NoResult]
    /\ mode_at_start = [c \in Cases |-> FALSE]

PureIdle ==
    /\ fn_input = None
    /\ fn_output = None

(***************************************************************************)
(* ERAIFCore (src/src/eraif_core.py): its state after __init__. The        *)
(* protocol handlers and the system monitor are not part of the sources;   *)
(* a handler keeps the mode it was last given, the monitor reports a       *)
(* connectivity or raises.                                                 *)
(***************************************************************************)
MaxCoreCalls == 3
CoreCalls == 1..MaxCoreCalls

\* The members of the EmergencyMode enumeration.
EmergencyMode ==
    {"NORMAL", "DEGRADED", "DISASTER", "MASS_CASUALTY", "ISOLATION",
     "RECOVERY"}

Protocols == {"dicom", "fhir", "ecp"}

NoCoreResult ==
    [status |-> None, emergency_id |-> 0, activation_time |-> 0, mode |-> None,
     error |-> None]
\* connectivity: what the monitor answered to the call (0: nothing yet);
\* queued: the emergency queue as the call found it.
NoCoreCall ==
    [op |-> None, pc |-> "idle", connectivity |-> 0, queued |-> <<>>,
     result |-> NoCoreResult]

(***************************************************************************)
(* EmergencyWorkflow (src/src/ai/workflows.py): the five workflow graphs,  *)
(* their node handlers and the monitoring router. A WorkflowState is       *)
(* modelled by its workflow_type, current_step, status, timeline (the      *)
(* event types, in order) and metadata["monitoring"]["status"]             *)
(* (monitoring; Missing while the key is absent).                          *)
(***************************************************************************)
WorkflowTypes ==
    {"mass_casualty", "disaster_response", "resource_optimization",
     "patient_transfer", "surge_capacity"}

\* The nodes each _build_*_workflow joins by plain edges, from the entry
\* point on; the last one of every workflow but mass_casualty leads to END.
WorkflowChains ==
    [mass_casualty |->
        <<"incident_assessment", "resource_mobilization",
          "triage_coordination", "patient_distribution", "ongoing_monitoring">>,
     disaster_response |->
        <<"disaster_assessment", "emergency_activation",
          "facility_coordination", "resource_redistribution",
          "communication_management", "recovery_planning">>,
     resource_optimization |->
        <<"demand_analysis", "capacity_assessment", "optimization_planning",
          "resource_allocation", "performance_monitoring">>,
     patient_transfer |->
        <<"transfer_assessment", "destination_selection",
          "transport_coordination", "transfer_execution",
          "transfer_monitoring">>,
     surge_capacity |->
        <<"surge_detection", "capacity_expansion", "staff_mobilization",
          "overflow_management", "surge_monitoring">>]

\* The label -> node mapping of the conditional edge out of
\* ongoing_monitoring.
MonitoringEdges ==
    [continue |-> "ongoing_monitoring", resolve |-> "incident_resolution",
     escalate |-> "resource_mobilization"]

WorkflowNodes(wt) ==
    {WorkflowChains[wt][i] : i \in 1..Len(WorkflowChains[wt])}
      \cup (IF wt = "mass_casualty" THEN {"incident_resolution"} ELSE {})

\* EmergencyWorkflow._monitoring_router.
_monitoring_router_unmapped(s) ==
    LET status == IF s.monitoring = Missing THEN "ongoing" ELSE s.monitoring
    IN  IF status = "winding_down" THEN "resolve"
        ELSE IF status = "escalating" THEN "escalate"
        ELSE status

_monitoring_router(s) ==
    LET status == IF s.monitoring = Missing THEN "ongoing" ELSE s.monitoring
    IN  IF status = "winding_down" THEN "resolve"
        ELSE IF status = "escalating" THEN "escalate"
        ELSE "continue"

\* The node the engine runs after `node` of workflow wt has returned state
\* s; a label the mapping does not hold ends the run with an error.
WorkflowNextNode(wt, node, s) ==
    LET chain == WorkflowChains[wt]
        at == CHOOSE i \in 1..Len(chain) : chain[i] = node
    IN  IF node = "incident_resolution" THEN END
        ELSE IF wt = "mass_casualty" /\ node = "ongoing_monitoring"
        THEN LET label == _monitoring_router(s)
             IN  IF label \in DOMAIN MonitoringEdges
                 THEN MonitoringEdges[label] ELSE RAISED
        ELSE IF at = Len(chain) THEN END
        ELSE chain[at + 1]

\* The event each handler adds to the timeline (the handlers of the
\* patient_transfer and surge_capacity workflows add none).
TimelineEvents ==
    [incident_assessment |-> "assessment_complete",
     resource_mobilization |-> "resources_mobilized",
     triage_coordination |-> "triage_coordinated",
     patient_distribution |-> "patients_distributed",
     disaster_assessment |-> "disaster_assessed",
     emergency_activation |-> "emergency_activated",
     facility_coordination |-> "facilities_coordinated",
     resource_redistribution |-> "resources_redistributed",
     communication_management |-> "communications_managed",
     recovery_planning |-> "recovery_planned",
     demand_analysis |-> "demand_analyzed",
     capacity_assessment |-> "capacity_assessed",
     optimization_planning |-> "optimization_planned",
     resource_allocation |-> "resources_allocated",
     performance_monitoring |-> "performance_monitored"]

\* What each of these handlers assigns to current_step before it returns.
CurrentSteps ==
    [incident_assessment |-> "incident_assessment_complete",
     resource_mobilization |-> "resource_mobilization_complete",
     triage_coordination |-> "triage_coordination_complete",
     patient_distribution |-> "patient_distribution_complete",
     disaster_assessment |-> "disaster_assessment_complete",
     emergency_activation |-> "emergency_activation_complete",
     facility_coordination |-> "facility_coordination_complete",
     resource_redistribution |-> "resource_redistribution_complete",
     communication_management |-> "communication_management_complete",
     recovery_planning |-> "recovery_planning_complete",
     demand_analysis |-> "demand_analysis_complete",
     capacity_assessment |-> "capacity_assessment_complete",
     optimization_planning |-> "optimization_planning_complete",
     resource_allocation |-> "resource_allocation_complete",
     performance_monitoring |-> "performance_monitoring_complete",
     transfer_assessment |-> "transfer_assessment_complete",
     destination_selection |-> "destination_selection_complete",
     transport_coordination |-> "transport_coordination_complete",
     transfer_execution |-> "transfer_execution_complete",
     transfer_monitoring |-> "transfer_monitoring_complete",
     surge_detection |-> "surge_detection_complete",
     capacity_expansion |-> "capacity_expansion_complete",
     staff_mobilization |-> "staff_mobilization_complete",
     overflow_management |-> "overflow_management_complete",
     surge_monitoring |-> "surge_monitoring_complete"]

\* _monitor_incident_node: a timeline event stands for 15 minutes; from 240
\* minutes on the incident is winding down.
MinutesPerEvent == 15
WindingDownMinutes == 240

_monitor_incident_node_never_winds_down(s) ==
    [s EXCEPT !.monitoring = "ongoing",
              !.timeline = Append(@, "incident_monitored"),
              !.current_step = "ongoing_monitoring"]

_monitor_incident_node_escalates(s) ==
    LET incident_duration == Len(s.timeline) * MinutesPerEvent
    IN  [s EXCEPT !.monitoring = IF incident_duration < 120 THEN "escalating"
                                 ELSE IF incident_duration < WindingDownMinutes
                                 THEN "ongoing" ELSE "winding_down",
                  !.timeline = Append(@, "incident_monitored"),
                  !.current_step = "ongoing_monitoring"]

_monitor_incident_node(s) ==
    LET incident_duration == Len(s.timeline) * MinutesPerEvent
    IN  [s EXCEPT !.monitoring = IF incident_duration < WindingDownMinutes
                                 THEN "ongoing" ELSE "winding_down",
                  !.timeline = Append(@, "incident_monitored"),
                  !.current_step = "ongoing_monitoring"]

_resolve_incident_node(s) ==
    [s EXCEPT !.status = "resolved",
              !.timeline = Append(@, "incident_resolved"),
              !.current_step = "incident_resolved"]

\* The handler registered under `node`, applied to s.
WorkflowHandler_sets_node_name(node, s) ==
    CASE node = "ongoing_monitoring" -> _monitor_incident_node(s)
      [] node = "incident_resolution" ->
            [_resolve_incident_node(s) EXCEPT !.current_step = node]
      [] OTHER ->
            [s EXCEPT !.timeline = IF node \in DOMAIN TimelineEvents
                                   THEN Append(@, TimelineEvents[node]) ELSE @,
                      !.current_step = node]

WorkflowHandler(node, s) ==
    CASE node = "ongoing_monitoring" -> _monitor_incident_node(s)
      [] node = "incident_resolution" -> _resolve_incident_node(s)
      [] OTHER ->
            [s EXCEPT !.timeline = IF node \in DOMAIN TimelineEvents
                                   THEN Append(@, TimelineEvents[node]) ELSE @,
                      !.current_step = CurrentSteps[node]]

\* WorkflowState as execute_workflow creates it.
InitialWorkflowState(wt) ==
    [workflow_type |-> wt, current_step |-> "initial", status |-> "active",
     timeline |-> <<>>, monitoring |-> Missing]

NoWorkflowState == InitialWorkflowState(None)
NoWorkflowResult == [status |-> None, timeline |-> <<>>]

WorkflowIdle ==
    /\ workflow_state = NoWorkflowState
    /\ workflow_run = NoRun
    /\ workflow_result = NoWorkflowResult

\* A replay: process_emergency called twice on the same emergency data, the
\* providers answering both runs alike. raises: the node whose handler
\* raises on this data (None: none does).
Replays == {"first", "second"}
ReplayInputs ==
    [triage : TriageOutcomes, has_studies : BOOLEAN, analyzer_ok : BOOLEAN,
     generator_ok : BOOLEAN, raises : {None, "intake", "imaging_analysis"}]
NoReplayInput ==
    [triage |-> [kind |-> "exception", priority |-> Missing],
     has_studies |-> FALSE, analyzer_ok |-> TRUE, generator_ok |-> TRUE,
     raises |-> None]
\* checkpoints: the state the engine recorded after each executed node.
NoReplayRun ==
    [next |-> None, executed |-> <<>>, checkpoints |-> <<>>,
     state |-> InitialPipelineState]

ReplayIdle ==
    /\ wall_clock = 0
    /\ replay_input = NoReplayInput
    /\ replay_run = [r \in Replays |-> NoReplayRun]

\* initialize and shutdown: where each call stands, the call slot of the
\* deactivate that shutdown awaits (0: none) and the mode shutdown found.
NoLifeCall ==
    [initialize |-> "idle", shutdown |-> "idle", deactivate |-> 0,
     mode_found |-> None]

CoreInit ==
    /\ emergency_mode = "NORMAL"
    /\ emergency_id = 0
    /\ emergency_start_time = 0
    /\ protocol_mode = [p \in Protocols |-> "NORMAL"]
    /\ emergency_monitoring = FALSE
    /\ core_clock = 0
    /\ core_call = [k \in CoreCalls |-> NoCoreCall]
    /\ emergency_queue = <<>>
    /\ processed_studies = <<>>
    /\ system_status = "initializing"
    /\ handlers_up = {}
    /\ life_call = NoLifeCall

Init ==
    FacadeInit /\ CaseInit /\ PureIdle /\ CoreInit /\ WorkflowIdle /\ ReplayIdle

(***************************************************************************)
(* EmergencySystem.process_emergency_case, lines 80-96: the case is        *)
(* recorded and ai_pipeline.process_emergency creates the session state    *)
(* and invokes the graph.                                                  *)
(***************************************************************************)
\* The cases inside the stretch of process_emergency_case that awaits
\* nothing that suspends (lines 105-124: _check_critical_findings and
\* _generate_critical_alert never yield to the event loop): no other task
\* runs while a case is there.
InAtomicStretch == {c \in Cases : case_pc[c] = "alerts"}

StartCase(c) ==
    /\ case_pc[c] = "idle"
    /\ InAtomicStretch = {}
    /\ \E cd \in CaseDataSet : case_data' = [case_data EXCEPT ![c] = cd]
    /\ active_cases' = [active_cases EXCEPT ![c] = "processing"]
    /\ state' = [state EXCEPT ![c] = InitialPipelineState]
    /\ graph_run' = [graph_run EXCEPT ![c] =
                        [next |-> EntryPoint, executed |-> <<>>, error |-> None]]
    /\ mode_at_start' = [mode_at_start EXCEPT ![c] = emergency_mode_active]
    /\ case_pc' = [case_pc EXCEPT ![c] = "pipeline"]
    /\ UNCHANGED <<emergency_mode_active, emergency_mode_reason,
                   emergency_mode_activated_at, system_metrics, clock, act_call,
                   deact_log, faults, ai_results, workflow_type, case_summary,
                   case_result, pureVars, coreVars, lifeVars, wfVars, replayVars>>

(***************************************************************************)
(* The graph engine running one node of session c.                         *)
(***************************************************************************)
AtNode(c, node) ==
    /\ case_pc[c] = "pipeline"
    /\ graph_run[c].next = node

CanFault(c) == Cardinality(faults[c]) < MaxFaults

\* The handler of `node` returned s: the engine follows the edge out of it.
NodeReturns(c, node, s) ==
    /\ state' = [state EXCEPT ![c] = s]
    /\ graph_run' = [graph_run EXCEPT ![c] =
            [next |-> NextNode(node, s),
             executed |-> Append(@.executed, node),
             error |-> IF NextNode(node, s) = RAISED THEN "routing" ELSE None]]

\* The handler of `node` raised: the engine stops and ainvoke raises.
NodeRaises(c, node) ==
    /\ CanFault(c)
    /\ faults' = [faults EXCEPT ![c] = @ \cup {node \o "_raises"}]
    /\ graph_run' = [graph_run EXCEPT ![c] =
            [next |-> RAISED, executed |-> Append(@.executed, node),
             error |-> node]]
    /\ UNCHANGED state

\* A provider call inside a handler failed and the agent's except branch
\* turned the failure into a default result.
ProviderFails(c, provider) ==
    /\ CanFault(c)
    /\ faults' = [faults EXCEPT ![c] = @ \cup {provider}]

NodeFrame ==
    UNCHANGED <<facadeVars, case_pc, case_data, ai_results, workflow_type,
                case_summary, case_result, mode_at_start, pureVars, coreVars, lifeVars, wfVars, replayVars>>

\* _intake_node; _determine_priority raises on a chief_complaint that is
\* no string.
IntakeNode(c) ==
    /\ AtNode(c, "intake")
    /\ \/ NodeReturns(c, "intake", _intake_node(state[c], wall_clock)) /\ UNCHANGED faults
       \/ NodeRaises(c, "intake")
    /\ NodeFrame

\* _triage_node; it raises on a triage result it cannot read or format.
TriageNode(c) ==
    /\ AtNode(c, "triage")
    /\ \/ \E outcome \in TriageOutcomes :
            /\ NodeReturns(c, "triage",
                           _triage_node(state[c], analyze_emergency(outcome)))
            /\ IF outcome.kind = "ok" THEN UNCHANGED faults
               ELSE ProviderFails(c, "triage_analyzer")
       \/ NodeRaises(c, "triage")
    /\ NodeFrame

\* _imaging_analysis_node; with studies to analyse, the unguarded LLM call of
\* _summarize_imaging_results raises when the provider fails.
ImagingAnalysisNode(c) ==
    /\ AtNode(c, "imaging_analysis")
    /\ LET has_studies == case_data[c].has_imaging_studies
       IN  \/ /\ NodeReturns(c, "imaging_analysis",
                       _imaging_analysis_node(state[c], has_studies, TRUE))
              /\ UNCHANGED faults
           \/ /\ has_studies
              /\ NodeReturns(c, "imaging_analysis",
                       _imaging_analysis_node(state[c], has_studies, FALSE))
              /\ ProviderFails(c, "imaging_analyzer")
           \/ /\ has_studies
              /\ NodeRaises(c, "imaging_analysis")
    /\ NodeFrame

ClinicalDecisionNode(c) ==
    /\ AtNode(c, "clinical_decision")
    /\ \/ /\ NodeReturns(c, "clinical_decision",
                   _clinical_decision_node(state[c], TRUE))
          /\ UNCHANGED faults
       \/ /\ NodeReturns(c, "clinical_decision",
                   _clinical_decision_node(state[c], FALSE))
          /\ ProviderFails(c, "recommendation_generator")
    /\ NodeFrame

ResourceOptimizationNode(c) ==
    /\ AtNode(c, "resource_optimization")
    /\ NodeReturns(c, "resource_optimization",
                   _resource_optimization_node(state[c]))
    /\ UNCHANGED faults
    /\ NodeFrame

EmergencyCoordinationNode(c) ==
    /\ AtNode(c, "emergency_coordination")
    /\ NodeReturns(c, "emergency_coordination",
                   _emergency_coordination_node(state[c]))
    /\ UNCHANGED faults
    /\ NodeFrame

MonitoringNode(c) ==
    /\ AtNode(c, "monitoring")
    /\ NodeReturns(c, "monitoring", _monitoring_node(state[c]))
    /\ UNCHANGED faults
    /\ NodeFrame

(***************************************************************************)
(* AIMLPipeline.process_emergency, lines 379-400: what it returns once the *)
(* graph run of state s has ended at END, or has raised.                   *)
(***************************************************************************)
process_emergency_raise_lost(s, run, session) ==
    [status |-> s.workflow_status,
     triage_priority |-> s.triage_results.priority,
     error |-> None, session_id |-> session]

process_emergency(s, run, session) ==
    IF run.next = END
    THEN [status |-> s.workflow_status,
          triage_priority |-> s.triage_results.priority,
          error |-> None, session_id |-> session]
    ELSE [status |-> "error", triage_priority |-> Missing,
          error |-> run.error, session_id |-> session]

\* self.emergency_mode_active as case c's call reads it.
ModeSeenBy_snapshot(c) == mode_at_start[c]

ModeSeenBy(c) == emergency_mode_active

\* EmergencyWorkflow.execute_workflow: the dict it returns when the workflow
\* ran, and the one of its except branch.
execute_workflow(wt, ran) ==
    IF ran
    THEN [status |-> IF wt = "mass_casualty" THEN "resolved" ELSE "active",
          workflow_type |-> None, error |-> None]
    ELSE [status |-> None, workflow_type |-> wt, error |-> "provider"]

_generate_case_summary(c, wf_results, findings) ==
    [status |-> "completed",
     emergency_mode_active |-> ModeSeenBy(c),
     workflow_type |-> wf_results.workflow_type,
     critical_findings |-> findings]

\* The number of alerts _check_critical_findings raises for the first n findings.
AlertsFor(findings, n) ==
    Cardinality({i \in 1..n : findings[i] >= AutoAlertThreshold})

\* process_emergency_case, lines 96-103: the pipeline has returned, the
\* workflow is chosen and started.
ProcessEmergencyReturn(c) ==
    /\ case_pc[c] = "pipeline"
    /\ graph_run[c].next \in {END, RAISED}
    /\ LET air == process_emergency(state[c], graph_run[c], c)
       IN  /\ ai_results' = [ai_results EXCEPT ![c] = air]
           /\ workflow_type' = [workflow_type EXCEPT ![c] =
                   _determine_workflow_type(case_data[c], air, ModeSeenBy(c))]
    /\ case_pc' = [case_pc EXCEPT ![c] = "workflow"]
    /\ UNCHANGED <<facadeVars, case_data, state, graph_run, faults,
                   case_summary, case_result, mode_at_start, pureVars, coreVars, lifeVars, wfVars, replayVars>>

\* The except branch of process_emergency_case, lines 125-138.
CaseFails(c, what) ==
    /\ CanFault(c)
    /\ faults' = [faults EXCEPT ![c] = @ \cup {what \o "_raises"}]
    /\ active_cases' = [active_cases EXCEPT ![c] = "error"]
    /\ case_result' = [case_result EXCEPT ![c] =
                          [status |-> "error", error |-> what]]
    /\ case_pc' = [case_pc EXCEPT ![c] = "done"]

\* process_emergency_case, lines 100-117: the workflow has returned, the
\* summary is built, the case marked completed and the metrics updated.
\* _extract_critical_findings raises on findings that are no dicts.
WorkflowReturn(c) ==
    /\ case_pc[c] = "workflow"
    /\ \/ \E ran \in BOOLEAN, findings \in FindingSeqs :
            /\ ai_results[c].status = "error" => findings = <<>>
            /\ IF ran THEN UNCHANGED faults ELSE ProviderFails(c, "workflow")
            /\ case_summary' = [case_summary EXCEPT ![c] =
                    _generate_case_summary(
                        c, execute_workflow(workflow_type[c], ran), findings)]
            /\ active_cases' = [active_cases EXCEPT ![c] = "completed"]
            /\ system_metrics' =
                    [system_metrics EXCEPT !.cases_processed = @ + 1,
                                           !.ai_analyses_completed = @ + 1,
                                           !.workflows_executed = @ + 1]
            /\ case_pc' = [case_pc EXCEPT ![c] = "alerts"]
            /\ UNCHANGED case_result
       \/ /\ ai_results[c].status # "error"
          /\ CaseFails(c, "summary")
          /\ UNCHANGED <<case_summary, system_metrics>>
    /\ UNCHANGED <<emergency_mode_active, emergency_mode_reason,
                   emergency_mode_activated_at, clock, act_call, deact_log,
                   case_data, state, graph_run, ai_results, workflow_type,
                   mode_at_start, pureVars, coreVars, lifeVars, wfVars, replayVars>>

\* process_emergency_case, lines 119-123, with _check_critical_findings: one
\* alert per finding at or above the threshold, then the summary is
\* returned; a finding whose confidence cannot be compared raises.
CheckCriticalFindings(c) ==
    /\ case_pc[c] = "alerts"
    /\ LET findings == case_summary[c].critical_findings
       IN  \/ /\ system_metrics' = [system_metrics EXCEPT !.alerts_generated =
                                       @ + AlertsFor(findings, Len(findings))]
              /\ case_result' = [case_result EXCEPT ![c] =
                     [status |-> case_summary[c].status, error |-> None]]
              /\ case_pc' = [case_pc EXCEPT ![c] = "done"]
              /\ UNCHANGED <<active_cases, faults>>
           \/ \E k \in 1..Len(findings) :
              /\ system_metrics' = [system_metrics EXCEPT !.alerts_generated =
                                       @ + AlertsFor(findings, k - 1)]
              /\ CaseFails(c, "alert")
    /\ UNCHANGED <<emergency_mode_active, emergency_mode_reason,
                   emergency_mode_activated_at, clock, act_call, deact_log,
                   case_data, state, graph_run, ai_results, workflow_type,
                   case_summary, mode_at_start, pureVars, coreVars, lifeVars, wfVars, replayVars>>

(***************************************************************************)
(* EmergencySystem.activate_emergency_mode. Lines 158-177 run up to the    *)
(* awaited disaster_response workflow; lines 180-195 run once it returned. *)
(***************************************************************************)
ActivateBegin(k) ==
    /\ act_call[k].pc = "idle"
    /\ InAtomicStretch = {}
    /\ \A j \in ActCalls : j < k => act_call[j].pc # "idle"
    /\ emergency_mode_reason' = ReasonOf(k)
    /\ act_call' = [act_call EXCEPT ![k].pc = "running",
                                    ![k].reason = ReasonOf(k),
                                    ![k].found_active = emergency_mode_active]
    /\ emergency_mode_active' = TRUE
    /\ clock' = clock + 1
    /\ emergency_mode_activated_at' = clock + 1
    /\ UNCHANGED <<active_cases, system_metrics, deact_log, caseVars, pureVars, coreVars, lifeVars, wfVars, replayVars>>

\* _generate_emergency_alerts counts an alert; building the result reads
\* self.emergency_mode_activated_at again, which is None (and isoformat()
\* raises into the except branch) when a deactivate ran in between.
ActivateEnd(k) ==
    /\ act_call[k].pc = "running"
    /\ InAtomicStretch = {}
    /\ system_metrics' = [system_metrics EXCEPT !.alerts_generated = @ + 1]
    /\ act_call' = [act_call EXCEPT
          ![k].pc = "done",
          ![k].result =
              IF emergency_mode_activated_at = 0
              THEN [status |-> "error", reason |-> None,
                    emergency_config |-> None]
              ELSE [status |-> "activated", reason |-> act_call[k].reason,
                    emergency_config |->
                        _configure_emergency_mode(SeverityOf(k))]]
    /\ UNCHANGED <<emergency_mode_active, emergency_mode_reason,
                   emergency_mode_activated_at, active_cases, clock, deact_log,
                   caseVars, pureVars, coreVars, lifeVars, wfVars, replayVars>>

(***************************************************************************)
(* EmergencySystem.deactivate_emergency_mode (it awaits nothing).          *)
(***************************************************************************)
\* The dict returned when emergency mode is not active (line 208).
deactivate_not_active_as_deactivated ==
    [status |-> "deactivated", previous_reason |-> None]

deactivate_not_active ==
    [status |-> "not_active", previous_reason |-> None]

DeactivateEmergencyMode ==
    /\ Len(deact_log) < MaxDeactivations
    /\ InAtomicStretch = {}
    /\ IF ~emergency_mode_active
       THEN /\ deact_log' = Append(deact_log, deactivate_not_active)
            /\ UNCHANGED <<emergency_mode_active, emergency_mode_reason,
                           emergency_mode_activated_at>>
       ELSE /\ emergency_mode_active' = FALSE
            /\ emergency_mode_reason' = None
            /\ emergency_mode_activated_at' = 0
            /\ deact_log' = Append(deact_log,
                   [status |-> "deactivated",
                    previous_reason |-> emergency_mode_reason])
    /\ UNCHANGED <<active_cases, system_metrics, clock, act_call, caseVars,
                   pureVars, coreVars, lifeVars, wfVars, replayVars>>

(***************************************************************************)
(* The facade's specification.                                             *)
(***************************************************************************)
PipelineStep(c) ==
    \/ IntakeNode(c)
    \/ TriageNode(c)
    \/ ImagingAnalysisNode(c)
    \/ ClinicalDecisionNode(c)
    \/ ResourceOptimizationNode(c)
    \/ EmergencyCoordinationNode(c)
    \/ MonitoringNode(c)

\* A step of a started process_emergency_case call.
CaseStep(c) ==
    /\ InAtomicStretch \subseteq {c}
    /\ \/ PipelineStep(c)
       \/ ProcessEmergencyReturn(c)
       \/ WorkflowReturn(c)
       \/ CheckCriticalFindings(c)

Next ==
    \/ \E c \in Cases : StartCase(c)
    \/ \E c \in Cases : CaseStep(c)
    \/ \E k \in ActCalls : ActivateBegin(k)
    \/ \E k \in ActCalls : ActivateEnd(k)
    \/ DeactivateEmergencyMode

Spec == Init /\ [][Next]_vars

\* The event loop resumes every task that can run: a started case, whose
\* provider calls return or raise, keeps taking steps.
FairSpec == Spec /\ \A c \in Cases : WF_vars(CaseStep(c))

(***************************************************************************)
(* SpecPure: _triage_router and _determine_workflow_type applied to        *)
(* arguments drawn from bounded sets.                                      *)
(***************************************************************************)
RouterPriorities ==
    {"critical", "life_threatening", "urgent", "high", "routine", "normal",
     "unknown", "immediate", "int:1", "int:2", Missing}

PureInputs ==
    [priority : RouterPriorities,
     incident_type : {"mass_casualty", "vehicle_accident", Missing},
     active : BOOLEAN,
     concurrent_priority_cases : {0, 5, 6},
     requires_transfer : BOOLEAN,
     occupancy_percent : {0, 85, 86}]

PureCaseData(in) ==
    [incident_type |-> in.incident_type,
     requires_transfer |-> in.requires_transfer,
     concurrent_priority_cases |-> in.concurrent_priority_cases,
     occupancy_percent |-> in.occupancy_percent,
     has_imaging_studies |-> FALSE]

PureAiResults(in) ==
    [status |-> "completed", triage_priority |-> in.priority, error |-> None,
     session_id |-> 0]

PureInit ==
    /\ FacadeInit
    /\ CaseInit
    /\ fn_input \in PureInputs
    /\ fn_output = [router |-> None, workflow |-> None]
    /\ CoreInit
    /\ WorkflowIdle
    /\ ReplayIdle

CallTriageRouter ==
    /\ fn_input \in PureInputs
    /\ fn_output.router = None
    /\ fn_output' = [fn_output EXCEPT !.router =
                        _triage_router([priority |-> fn_input.priority,
                                        error |-> None])]
    /\ UNCHANGED <<facadeVars, caseVars, fn_input, coreVars, lifeVars, wfVars, replayVars>>

CallDetermineWorkflowType ==
    /\ fn_input \in PureInputs
    /\ fn_output.workflow = None
    /\ fn_output' = [fn_output EXCEPT !.workflow =
                        _determine_workflow_type(PureCaseData(fn_input),
                                                 PureAiResults(fn_input),
                                                 fn_input.active)]
    /\ UNCHANGED <<facadeVars, caseVars, fn_input, coreVars, lifeVars, wfVars, replayVars>>

PureNext == CallTriageRouter \/ CallDetermineWorkflowType

SpecPure == PureInit /\ [][PureNext]_vars

(***************************************************************************)
(* SpecPolicy: _configure_emergency_mode applied to the severities of two  *)
(* activations, so that the configurations of two severities can be        *)
(* compared. fn_input holds the two severities, fn_output the              *)
(* configurations returned so far.                                         *)
(***************************************************************************)
\* The severities activate_emergency_mode documents, and two it does not.
Severities == {"low", "medium", "high", "critical", "moderate", "unknown"}

Activations == {"first", "second"}

NoConfig ==
    [priority_threshold |-> None, batch_processing |-> FALSE,
     compression_enabled |-> FALSE, timeout_reduced |-> FALSE,
     ai_confidence_threshold |-> 0]

PolicyInit ==
    /\ FacadeInit
    /\ CaseInit
    /\ fn_input \in [Activations -> Severities]
    /\ fn_output = [a \in Activations |-> NoConfig]
    /\ CoreInit
    /\ WorkflowIdle
    /\ ReplayIdle

CallConfigureEmergencyMode(a) ==
    /\ fn_output[a] = NoConfig
    /\ fn_output' = [fn_output EXCEPT
                        ![a] = _configure_emergency_mode(fn_input[a])]
    /\ UNCHANGED <<facadeVars, caseVars, fn_input, coreVars, lifeVars, wfVars, replayVars>>

PolicyNext == \E a \in Activations : CallConfigureEmergencyMode(a)

SpecPolicy == PolicyInit /\ [][PolicyNext]_vars

(***************************************************************************)
(* SpecOps: the facade with its other public operations. None of them      *)
(* writes a field of the facade; fn_output holds what the last one         *)
(* returned. optimize_resources and coordinate_patient_transfer await      *)
(* execute_workflow, which hands back its result or its error dict.        *)
(***************************************************************************)
OptimizeResources_activates ==
    /\ InAtomicStretch = {}
    /\ \E ran \in BOOLEAN :
         fn_output' = [op |-> "optimize_resources",
                       result |-> execute_workflow("resource_optimization", ran)]
    /\ emergency_mode_active' = TRUE
    /\ UNCHANGED <<emergency_mode_reason, emergency_mode_activated_at,
                   active_cases, system_metrics, clock, act_call, deact_log,
                   caseVars, fn_input, coreVars, lifeVars, wfVars, replayVars>>

OptimizeResources ==
    /\ InAtomicStretch = {}
    /\ \E ran \in BOOLEAN :
         fn_output' = [op |-> "optimize_resources",
                       result |-> execute_workflow("resource_optimization", ran)]
    /\ UNCHANGED <<facadeVars, caseVars, fn_input, coreVars, lifeVars, wfVars, replayVars>>

CoordinatePatientTransfer ==
    /\ InAtomicStretch = {}
    /\ \E ran \in BOOLEAN :
         fn_output' = [op |-> "coordinate_patient_transfer",
                       result |-> execute_workflow("patient_transfer", ran)]
    /\ UNCHANGED <<facadeVars, caseVars, fn_input, coreVars, lifeVars, wfVars, replayVars>>

\* list_active_cases: the recorded cases whose status is "processing" or
\* "analyzing".
list_active_cases ==
    {c \in Cases : active_cases[c] \in {"processing", "analyzing"}}

\* len(self.active_cases): every recorded case.
len_active_cases == Cardinality({c \in Cases : active_cases[c] # "absent"})

\* get_system_status: emergency_mode.active and active_cases of the dict it
\* returns.
GetSystemStatus ==
    /\ InAtomicStretch = {}
    /\ fn_output' = [op |-> "get_system_status",
                     result |-> [active |-> emergency_mode_active,
                                 active_cases |-> len_active_cases]]
    /\ UNCHANGED <<facadeVars, caseVars, fn_input, coreVars, lifeVars, wfVars, replayVars>>

\* get_case_status: the case record, None for a case not recorded.
GetCaseStatus(c) ==
    /\ InAtomicStretch = {}
    /\ fn_output' = [op |-> "get_case_status",
                     result |-> [status |-> IF active_cases[c] = "absent"
                                            THEN None ELSE active_cases[c]]]
    /\ UNCHANGED <<facadeVars, caseVars, fn_input, coreVars, lifeVars, wfVars, replayVars>>

ListActiveCases ==
    /\ InAtomicStretch = {}
    /\ fn_output' = [op |-> "list_active_cases",
                     result |-> [cases |-> list_active_cases]]
    /\ UNCHANGED <<facadeVars, caseVars, fn_input, coreVars, lifeVars, wfVars, replayVars>>

OpsNext ==
    \/ Next
    \/ OptimizeResources
    \/ CoordinatePatientTransfer
    \/ GetSystemStatus
    \/ \E c \in Cases : GetCaseStatus(c)

OpsInit ==
    /\ FacadeInit
    /\ CaseInit
    /\ fn_input = None
    /\ fn_output = [op |-> None, result |-> [status |-> None]]
    /\ CoreInit
    /\ WorkflowIdle
    /\ ReplayIdle

SpecOps == OpsInit /\ [][OpsNext]_vars

\* SpecStatus: cases are processed while the status queries are called.
StatusNext ==
    \/ \E c \in Cases : StartCase(c)
    \/ \E c \in Cases : CaseStep(c)
    \/ GetSystemStatus
    \/ ListActiveCases

SpecStatus == OpsInit /\ [][StatusNext]_vars

(***************************************************************************)
(* ERAIFCore.activate_emergency_mode and deactivate_emergency_mode. Every  *)
(* await of a handler or monitor method is a point where the event loop    *)
(* may run another call; the code between two awaits is one step. A call   *)
(* of a protocol handler hands over the mode the caller reads at that      *)
(* moment.                                                                 *)
(***************************************************************************)
\* system_health["connectivity"], in hundredths, and the two limits of
\* lines 158 and 160.
DisasterConnectivity == 30
HybridConnectivity == 70
Connectivities == {10, 30, 50, 70, 90}

\* The member of EmergencyMode that lines 158-163 name for a connectivity.
ModeNamedFor(connectivity) ==
    IF connectivity < DisasterConnectivity THEN "DISASTER"
    ELSE IF connectivity < HybridConnectivity THEN "HYBRID"
    ELSE "EMERGENCY"

\* EmergencyMode.<name>: naming a member the enumeration lacks raises
\* AttributeError.
HasMember_any(name) == TRUE

HasMember(name) == name \in EmergencyMode

CoreFrameButQueue ==
    UNCHANGED <<facadeVars, caseVars, pureVars, system_status, handlers_up,
                wfVars, replayVars>>

CoreFrame ==
    /\ CoreFrameButQueue
    /\ UNCHANGED <<emergency_queue, processed_studies>>

\* The except branch of either method logs and raises again.
CoreRaised(call, error) ==
    [call EXCEPT !.pc = "done", !.result.status = "raised",
                 !.result.error = error]

CoreRaises(k, error) ==
    core_call' = [core_call EXCEPT ![k] = CoreRaised(@, error)]

\* A call is issued; calls are taken in the order of their index.
CoreCallFree(k) ==
    /\ core_call[k].pc = "idle"
    /\ \A j \in CoreCalls : j < k => core_call[j].pc # "idle"

\* Lines 153-157: the id and the start time are set, then the monitor is
\* awaited. The uuid of call k is k.
CoreActivateBegin(k) ==
    /\ CoreCallFree(k)
    /\ emergency_id' = k
    /\ core_clock' = core_clock + 1
    /\ emergency_start_time' = core_clock + 1
    /\ core_call' = [core_call EXCEPT ![k].op = "activate", ![k].pc = "health",
                                     ![k].queued = emergency_queue]
    /\ UNCHANGED <<emergency_mode, protocol_mode, emergency_monitoring>>
    /\ CoreFrame

\* Lines 157-166: the monitor answers (or raises); the mode is chosen and
\* handed to the DICOM handler.
CoreActivateHealth(k) ==
    /\ core_call[k].op = "activate"
    /\ core_call[k].pc = "health"
    /\ \/ \E connectivity \in Connectivities :
            LET name == ModeNamedFor(connectivity)
            IN  IF HasMember(name)
                THEN /\ emergency_mode' = name
                     /\ protocol_mode' = [protocol_mode EXCEPT !["dicom"] = name]
                     /\ core_call' = [core_call EXCEPT
                            ![k].pc = "fhir",
                            ![k].connectivity = connectivity]
                ELSE /\ core_call' = [core_call EXCEPT
                            ![k] = CoreRaised([@ EXCEPT !.connectivity =
                                                   connectivity],
                                              "AttributeError: " \o name)]
                     /\ UNCHANGED <<emergency_mode, protocol_mode>>
       \/ /\ CoreRaises(k, "monitor")
          /\ UNCHANGED <<emergency_mode, protocol_mode>>
    /\ UNCHANGED <<emergency_id, emergency_start_time, emergency_monitoring,
                   core_clock>>
    /\ CoreFrame

\* Lines 167-168: the FHIR handler, then the ECP handler, is given
\* self.emergency_mode as it is when the previous await returns.
CoreActivateProtocol(k) ==
    /\ core_call[k].op = "activate"
    /\ core_call[k].pc \in {"fhir", "ecp"}
    /\ protocol_mode' = [protocol_mode EXCEPT ![core_call[k].pc] = emergency_mode]
    /\ core_call' = [core_call EXCEPT ![k].pc =
                        IF @ = "fhir" THEN "ecp" ELSE "monitor"]
    /\ UNCHANGED <<emergency_mode, emergency_id, emergency_start_time,
                   emergency_monitoring, core_clock>>
    /\ CoreFrame

\* Line 171: monitor.start_emergency_monitoring.
CoreActivateMonitor(k) ==
    /\ core_call[k].op = "activate"
    /\ core_call[k].pc = "monitor"
    /\ emergency_monitoring' = TRUE
    /\ core_call' = [core_call EXCEPT ![k].pc = "respond"]
    /\ UNCHANGED <<emergency_mode, emergency_id, emergency_start_time,
                   protocol_mode, core_clock>>
    /\ CoreFrame

\* _process_emergency_queue, lines 318-322: while the queue holds a study
\* the first one is popped and processed; the result is the studies
\* processed so far, in order. _process_emergency_study awaits nothing, so
\* the loop runs without suspending.
_process_emergency_queue_last_first(queue, processed) ==
    processed \o [i \in 1..Len(queue) |-> queue[Len(queue) + 1 - i]]

RECURSIVE _process_emergency_queue(_, _)
_process_emergency_queue(queue, processed) ==
    IF queue = <<>> THEN processed
    ELSE _process_emergency_queue(Tail(queue), Append(processed, Head(queue)))

\* Lines 173-190: the queue is processed and the response is built from the
\* fields as they are now; self.emergency_start_time.isoformat() raises
\* when the time is None.
CoreActivateReturn(k) ==
    /\ core_call[k].op = "activate"
    /\ core_call[k].pc = "respond"
    /\ processed_studies' =
          _process_emergency_queue(emergency_queue, processed_studies)
    /\ emergency_queue' = <<>>
    /\ IF emergency_start_time = 0
       THEN CoreRaises(k, "AttributeError: isoformat")
       ELSE core_call' = [core_call EXCEPT
                ![k].pc = "done",
                ![k].result = [status |-> "activated",
                               emergency_id |-> emergency_id,
                               activation_time |-> emergency_start_time,
                               mode |-> emergency_mode,
                               error |-> None]]
    /\ UNCHANGED <<emergency_mode, emergency_id, emergency_start_time,
                   protocol_mode, emergency_monitoring, core_clock>>
    /\ CoreFrameButQueue

CoreDeactivateBegin_always_resets_handlers(k) ==
    /\ CoreCallFree(k)
    /\ IF emergency_mode = "NORMAL"
       THEN /\ core_call' = [core_call EXCEPT
                   ![k].op = "deactivate", ![k].pc = "done",
                   ![k].result.status = "already_normal"]
            /\ protocol_mode' = [p \in Protocols |-> "NORMAL"]
       ELSE /\ core_call' = [core_call EXCEPT
                   ![k].op = "deactivate", ![k].pc = "fhir"]
            /\ protocol_mode' = [protocol_mode EXCEPT !["dicom"] = "NORMAL"]
    /\ UNCHANGED <<emergency_mode, emergency_id, emergency_start_time,
                   emergency_monitoring, core_clock>>
    /\ CoreFrame

\* deactivate_emergency_mode, lines 206-213: in NORMAL mode the call returns
\* at once; otherwise the DICOM handler is given NORMAL.
CoreDeactivateBegin(k) ==
    /\ CoreCallFree(k)
    /\ IF emergency_mode = "NORMAL"
       THEN /\ core_call' = [core_call EXCEPT
                   ![k].op = "deactivate", ![k].pc = "done",
                   ![k].result.status = "already_normal"]
            /\ UNCHANGED protocol_mode
       ELSE /\ core_call' = [core_call EXCEPT
                   ![k].op = "deactivate", ![k].pc = "fhir"]
            /\ protocol_mode' = [protocol_mode EXCEPT !["dicom"] = "NORMAL"]
    /\ UNCHANGED <<emergency_mode, emergency_id, emergency_start_time,
                   emergency_monitoring, core_clock>>
    /\ CoreFrame

\* Lines 214-215: the FHIR handler, then the ECP handler, is given NORMAL.
CoreDeactivateProtocol(k) ==
    /\ core_call[k].op = "deactivate"
    /\ core_call[k].pc \in {"fhir", "ecp"}
    /\ protocol_mode' = [protocol_mode EXCEPT ![core_call[k].pc] = "NORMAL"]
    /\ core_call' = [core_call EXCEPT ![k].pc =
                        IF @ = "fhir" THEN "ecp" ELSE "monitor"]
    /\ UNCHANGED <<emergency_mode, emergency_id, emergency_start_time,
                   emergency_monitoring, core_clock>>
    /\ CoreFrame

\* Line 218: monitor.stop_emergency_monitoring.
CoreDeactivateMonitor(k) ==
    /\ core_call[k].op = "deactivate"
    /\ core_call[k].pc = "monitor"
    /\ emergency_monitoring' = FALSE
    /\ core_call' = [core_call EXCEPT ![k].pc = "respond"]
    /\ UNCHANGED <<emergency_mode, emergency_id, emergency_start_time,
                   protocol_mode, core_clock>>
    /\ CoreFrame

\* The emergency state lines 234-236 leave behind.
CoreResetState_keeps_id == <<"NORMAL", emergency_id, 0>>

CoreResetState == <<"NORMAL", 0, 0>>

\* Lines 220-240: the response carries self.emergency_id as it is now, then
\* the emergency state is reset.
CoreDeactivateReturn(k) ==
    /\ core_call[k].op = "deactivate"
    /\ core_call[k].pc = "respond"
    /\ core_call' = [core_call EXCEPT
            ![k].pc = "done",
            ![k].result = [status |-> "deactivated",
                           emergency_id |-> emergency_id,
                           activation_time |-> 0,
                           mode |-> None,
                           error |-> None]]
    /\ emergency_mode' = CoreResetState[1]
    /\ emergency_id' = CoreResetState[2]
    /\ emergency_start_time' = CoreResetState[3]
    /\ UNCHANGED <<protocol_mode, emergency_monitoring, core_clock>>
    /\ CoreFrame

CoreStep(k) ==
    /\ \/ CoreActivateBegin(k)
       \/ CoreActivateHealth(k)
       \/ CoreActivateProtocol(k)
       \/ CoreActivateMonitor(k)
       \/ CoreActivateReturn(k)
       \/ CoreDeactivateBegin(k)
       \/ CoreDeactivateProtocol(k)
       \/ CoreDeactivateMonitor(k)
       \/ CoreDeactivateReturn(k)
    /\ UNCHANGED life_call

\* SpecCore: ERAIFCore taking overlapping activate and deactivate calls.
CoreNext == \E k \in CoreCalls : CoreStep(k)

SpecCore == Init /\ [][CoreNext]_vars

(***************************************************************************)
(* EmergencyWorkflow.execute_workflow: the state is created, the engine    *)
(* runs the graph node by node from its entry point, and the final state   *)
(* (or the error) is handed back.                                          *)
(***************************************************************************)
WorkflowFrame ==
    UNCHANGED <<facadeVars, caseVars, pureVars, coreVars, lifeVars, replayVars>>

\* Lines 572-583: the initial state, and ainvoke entering the graph.
ExecuteWorkflow(wt) ==
    /\ workflow_run.next = None
    /\ workflow_state' = InitialWorkflowState(wt)
    /\ workflow_run' = [NoRun EXCEPT !.next = WorkflowChains[wt][1]]
    /\ UNCHANGED workflow_result
    /\ WorkflowFrame

\* The engine runs the node it stands at and follows the edge out of it.
WorkflowNodeStep ==
    LET wt == workflow_state.workflow_type
        node == workflow_run.next
    IN  /\ wt \in WorkflowTypes
        /\ node \in WorkflowNodes(wt)
        /\ LET s == WorkflowHandler(node, workflow_state)
               next == WorkflowNextNode(wt, node, s)
           IN  /\ workflow_state' = s
               /\ workflow_run' =
                     [next |-> next,
                      executed |-> Append(workflow_run.executed, node),
                      error |-> IF next = RAISED THEN "routing" ELSE None]
        /\ UNCHANGED workflow_result
        /\ WorkflowFrame

\* Lines 585-602: the dict built from the final state, or the error dict of
\* the except branch.
ExecuteWorkflowReturn ==
    /\ workflow_run.next \in {END, RAISED}
    /\ workflow_result' =
          IF workflow_run.next = END
          THEN [status |-> workflow_state.status,
                timeline |-> workflow_state.timeline]
          ELSE [status |-> "error", timeline |-> <<>>]
    /\ workflow_run' = [workflow_run EXCEPT !.next = "returned"]
    /\ UNCHANGED workflow_state
    /\ WorkflowFrame

\* SpecGraphs: the graphs run through their public entries: a case goes
\* through the pipeline graph (process_emergency) and a workflow is
\* executed (execute_workflow).
GraphsNext ==
    \/ \E c \in Cases : StartCase(c)
    \/ \E c \in Cases : PipelineStep(c)
    \/ \E c \in Cases : ProcessEmergencyReturn(c)
    \/ \E wt \in WorkflowTypes : ExecuteWorkflow(wt)
    \/ WorkflowNodeStep
    \/ ExecuteWorkflowReturn

SpecGraphs == Init /\ [][GraphsNext]_vars

\* The engine keeps running a workflow it has entered.
FairSpecGraphs ==
    SpecGraphs /\ WF_vars(WorkflowNodeStep) /\ WF_vars(ExecuteWorkflowReturn)

\* SpecReplay: process_emergency is run twice on the same emergency data
\* while time passes. Both runs start from the same PipelineState (the
\* session id, which process_emergency draws afresh, is taken to be given).
MaxTicks == 2

ReplayInit ==
    /\ FacadeInit /\ CaseInit /\ PureIdle /\ CoreInit /\ WorkflowIdle
    /\ wall_clock = 0
    /\ replay_input \in ReplayInputs
    /\ replay_run = [r \in Replays |-> NoReplayRun]

ReplayFrame ==
    UNCHANGED <<facadeVars, caseVars, pureVars, coreVars, lifeVars, wfVars>>

\* The handler the graph has registered for node, given what the providers
\* answer on this data and the instant the handler runs at.
ReplayHandler(node, s, input, now) ==
    CASE node = "intake" -> _intake_node(s, now)
      [] node = "triage" -> _triage_node(s, analyze_emergency(input.triage))
      [] node = "imaging_analysis" ->
            _imaging_analysis_node(s, input.has_studies, input.analyzer_ok)
      [] node = "clinical_decision" ->
            _clinical_decision_node(s, input.generator_ok)
      [] node = "resource_optimization" -> _resource_optimization_node(s)
      [] node = "emergency_coordination" -> _emergency_coordination_node(s)
      [] node = "monitoring" -> _monitoring_node(s)

\* Lines 369-381: the initial state, and ainvoke entering the graph.
ReplayStart(r) ==
    /\ replay_run[r].next = None
    /\ replay_run' = [replay_run EXCEPT ![r].next = EntryPoint]
    /\ UNCHANGED <<wall_clock, replay_input>>
    /\ ReplayFrame

\* The engine runs the next node's handler, records the state it returned
\* and follows the node's edge; a handler that raises ends the run.
ReplayStep(r) ==
    LET node == replay_run[r].next
    IN  /\ node \in Nodes
        /\ IF /\ replay_input.raises = node
              /\ node = "imaging_analysis" => replay_input.has_studies
           THEN replay_run' = [replay_run EXCEPT ![r].next = RAISED]
           ELSE LET s == ReplayHandler(node, replay_run[r].state,
                                       replay_input, wall_clock)
                IN  replay_run' =
                      [replay_run EXCEPT
                         ![r].state = s,
                         ![r].next = NextNode(node, s),
                         ![r].executed = Append(@, node),
                         ![r].checkpoints = Append(@, s)]
        /\ UNCHANGED <<wall_clock, replay_input>>
        /\ ReplayFrame

\* Time passes.
Tick ==
    /\ wall_clock < MaxTicks
    /\ wall_clock' = wall_clock + 1
    /\ UNCHANGED <<replay_input, replay_run>>
    /\ ReplayFrame

ReplayNext ==
    \/ \E r \in Replays : ReplayStart(r)
    \/ \E r \in Replays : ReplayStep(r)
    \/ Tick

SpecReplay == ReplayInit /\ [][ReplayNext]_vars

\* SpecTriage: the pipeline run on cases for which the triage provider
\* answers with one of the priorities the analyzer's prompt asks for
\* (agents.py 282), with text that is no JSON, or not at all.
AnalyzerPriorities == {"immediate", "urgent", "less_urgent", "non_urgent"}
AnalyzerOutcomes ==
    [kind : {"ok"}, priority : AnalyzerPriorities]
      \cup [kind : {"bad_json", "exception"}, priority : {Missing}]

TriageInit ==
    /\ FacadeInit /\ CaseInit /\ PureIdle /\ CoreInit /\ WorkflowIdle
    /\ wall_clock = 0
    /\ replay_input \in
          [triage : AnalyzerOutcomes, has_studies : BOOLEAN,
           analyzer_ok : BOOLEAN, generator_ok : BOOLEAN,
           raises : {None, "intake", "imaging_analysis"}]
    /\ replay_run = [r \in Replays |-> NoReplayRun]

SpecTriage == TriageInit /\ [][ReplayNext]_vars

\* SpecQueue: ERAIFCore taking calls while studies are put in its emergency
\* queue. Studies are numbered in the order they arrive.
MaxStudies == 2
Studies == 1..MaxStudies

StudyArrived(study) ==
    \/ \E i \in 1..Len(emergency_queue) : emergency_queue[i] = study
    \/ \E i \in 1..Len(processed_studies) : processed_studies[i] = study

\* emergency_queue.append / extend by the owner of the ERAIFCore object.
Enqueue(study) ==
    /\ ~StudyArrived(study)
    /\ \A earlier \in Studies : earlier < study => StudyArrived(earlier)
    /\ emergency_queue' = Append(emergency_queue, study)
    /\ UNCHANGED <<facadeVars, caseVars, pureVars, coreVars, processed_studies,
                   system_status, handlers_up, life_call, wfVars, replayVars>>

QueueNext ==
    \/ \E k \in CoreCalls : CoreStep(k)
    \/ \E study \in Studies : Enqueue(study)

SpecQueue == Init /\ [][QueueNext]_vars

(***************************************************************************)
(* ERAIFCore.initialize and ERAIFCore.shutdown. Each awaits the three      *)
(* protocol handlers and the monitor in turn; a step is the return of one  *)
(* await together with the code up to the next one. An awaited handler or  *)
(* monitor method may raise.                                               *)
(***************************************************************************)
\* The order in which both methods go through the handlers and the monitor.
AfterHandler ==
    [dicom |-> "fhir", fhir |-> "ecp", ecp |-> "monitor", monitor |-> "done"]

LifeFrame ==
    UNCHANGED <<facadeVars, caseVars, pureVars, coreVars, emergency_queue,
                processed_studies, wfVars, replayVars>>

\* initialize, lines 63-69: the call runs up to its first await.
InitializeBegin ==
    /\ life_call.initialize = "idle"
    /\ life_call' = [life_call EXCEPT !.initialize = "dicom"]
    /\ UNCHANGED <<system_status, handlers_up>>
    /\ LifeFrame

\* Lines 69-85: a handler is initialised, or the monitor started; after the
\* monitor the status becomes "ready". A raise sets the status "error" and
\* is raised again.
InitializeStep ==
    /\ life_call.initialize \in DOMAIN AfterHandler
    /\ \/ /\ handlers_up' = handlers_up \cup {life_call.initialize}
          /\ life_call' = [life_call EXCEPT
                 !.initialize = AfterHandler[life_call.initialize]]
          /\ system_status' = IF life_call.initialize = "monitor"
                              THEN "ready" ELSE system_status
       \/ /\ system_status' = "error"
          /\ life_call' = [life_call EXCEPT !.initialize = "raised"]
          /\ UNCHANGED handlers_up
    /\ LifeFrame

\* shutdown, lines 93-97: outside NORMAL mode deactivate_emergency_mode is
\* called and runs up to its first await; in NORMAL mode the DICOM
\* handler's shutdown is awaited at once.
ShutdownBegin ==
    /\ life_call.shutdown = "idle"
    /\ life_call.initialize \in {"done", "raised"}
    /\ IF emergency_mode # "NORMAL"
       THEN \E k \in CoreCalls :
              /\ CoreDeactivateBegin(k)
              /\ life_call' = [life_call EXCEPT !.shutdown = "dicom",
                                                !.deactivate = k,
                                                !.mode_found = emergency_mode]
       ELSE /\ life_call' = [life_call EXCEPT !.shutdown = "dicom",
                                              !.mode_found = emergency_mode]
            /\ UNCHANGED <<system_status, handlers_up>>
            /\ LifeFrame

\* Lines 97-108: once the deactivate (if any) has returned, the handlers
\* are shut down and the monitor stopped, one await after the other; after
\* the monitor the status becomes "stopped". A raise is logged and the
\* method returns.
ShutdownStep ==
    /\ life_call.shutdown \in DOMAIN AfterHandler
    /\ life_call.deactivate # 0 => core_call[life_call.deactivate].pc = "done"
    /\ \/ /\ handlers_up' = handlers_up \ {life_call.shutdown}
          /\ life_call' = [life_call EXCEPT
                 !.shutdown = AfterHandler[life_call.shutdown]]
          /\ system_status' = IF life_call.shutdown = "monitor"
                              THEN "stopped" ELSE system_status
       \/ /\ life_call' = [life_call EXCEPT !.shutdown = "done"]
          /\ UNCHANGED <<system_status, handlers_up>>
    /\ LifeFrame

\* SpecLife: an ERAIFCore object is initialised, takes activate and
\* deactivate calls and is shut down.
LifeNext ==
    \/ \E k \in CoreCalls : CoreStep(k)
    \/ InitializeBegin
    \/ InitializeStep
    \/ ShutdownBegin
    \/ ShutdownStep

SpecLife == Init /\ [][LifeNext]_vars

\* SpecModes: the two mode controllers, ERAIFCore and the facade, taking
\* calls; no case is processed.
ModesNext ==
    \/ \E k \in CoreCalls : CoreStep(k)
    \/ \E k \in ActCalls : ActivateBegin(k)
    \/ \E k \in ActCalls : ActivateEnd(k)
    \/ DeactivateEmergencyMode

SpecModes == Init /\ [][ModesNext]_vars

(***************************************************************************)
(* SpecRouter: _triage_router called repeatedly on session states as the   *)
(* triage node leaves them. fn_input keeps the states as first handed      *)
(* over, fn_output the labels returned for each session in call order.     *)
(***************************************************************************)
MaxRouterCalls == 2

\* The session state once _triage_router(state) has returned: the router
\* reads state.triage_results with dict.get (lines 300) and assigns nothing.
_triage_router_state_setdefault(s) ==
    [s EXCEPT !.triage_results.priority =
                  IF @ = Missing THEN "routine" ELSE @]

_triage_router_state(s) == s

RouterStates ==
    {_triage_node(s, [priority |-> p, error |-> e]) :
        s \in {InitialPipelineState, _intake_node(InitialPipelineState, 0)},
        p \in RouterPriorities, e \in {None, "provider"}}

RouterInit ==
    /\ FacadeInit
    /\ case_pc = [c \in Cases |-> "idle"]
    /\ case_data = [c \in Cases |-> NoCaseData]
    /\ state \in [Cases -> RouterStates]
    /\ graph_run = [c \in Cases |-> NoRun]
    /\ faults = [c \in Cases |-> {}]
    /\ ai_results = [c \in Cases |-> NoAiResults]
    /\ workflow_type = [c \in Cases |-> None]
    /\ case_summary = [c \in Cases |-> NoSummary]
    /\ case_result = [c \in Cases |-> NoResult]
    /\ mode_at_start = [c \in Cases |-> FALSE]
    /\ fn_input = state
    /\ fn_output = [c \in Cases |-> <<>>]
    /\ CoreInit
    /\ WorkflowIdle
    /\ ReplayIdle

CallTriageRouterOn(c) ==
    /\ Len(fn_output[c]) < MaxRouterCalls
    /\ fn_output' = [fn_output EXCEPT ![c] =
                        Append(@, _triage_router(state[c].triage_results))]
    /\ state' = [state EXCEPT ![c] = _triage_router_state(state[c])]
    /\ UNCHANGED <<facadeVars, case_pc, case_data, graph_run, faults,
                   ai_results, workflow_type, case_summary, case_result,
                   mode_at_start, fn_input, coreVars, lifeVars, wfVars, replayVars>>

RouterNext == \E c \in Cases : CallTriageRouterOn(c)

SpecRouter == RouterInit /\ [][RouterNext]_vars

(***************************************************************************)
(* Properties.                                                             *)
(***************************************************************************)
Last(seq) == seq[Len(seq)]
ProviderFaults ==
    {"triage_analyzer", "imaging_analyzer", "recommendation_generator",
     "workflow"}
Returned(c) == case_pc[c] = "done"
PipelineReturned(c) == case_pc[c] \in {"workflow", "alerts", "done"}

\* C1: every run of the case pipeline ends after finitely many node
\* executions (no node runs twice), process_emergency and
\* process_emergency_case return a status among completed, monitoring and
\* error (never pending), and every started case returns.
C1_TerminalStatuses == {"completed", "monitoring", "error"}

C1_ProcessCaseTerminates ==
    /\ [](\A c \in Cases :
            /\ \A i, j \in 1..Len(graph_run[c].executed) :
                  i # j => graph_run[c].executed[i] # graph_run[c].executed[j]
            /\ PipelineReturned(c) => ai_results[c].status \in C1_TerminalStatuses
            /\ Returned(c) => case_result[c].status \in C1_TerminalStatuses)
    /\ \A c \in Cases : (case_pc[c] = "pipeline") ~> Returned(c)

C1_Witness ==
    \E c \in Cases :
        /\ Returned(c)
        /\ ai_results[c].status = "monitoring"
        /\ graph_run[c].executed = <<"intake", "triage", "monitoring">>

\* C2: an activate call that finds the mode already active returns
\* "conflict" and leaves the reason and the activation time of the first
\* call as they were.
C2_LaterActivateConflicts ==
    [][\A k \in ActCalls :
        /\ (act_call[k].pc = "idle" /\ act_call'[k].pc = "running"
                /\ emergency_mode_active)
             => /\ emergency_mode_active' = emergency_mode_active
                /\ emergency_mode_reason' = emergency_mode_reason
                /\ emergency_mode_activated_at' = emergency_mode_activated_at
        /\ (act_call[k].pc = "running" /\ act_call'[k].pc = "done"
                /\ act_call[k].found_active)
             => act_call'[k].result.status = "conflict"]_vars

\* C3 as stated: deactivate on a system that is not in emergency mode
\* returns "already_normal" and changes nothing.
DeactivateReturns(status) ==
    /\ Len(deact_log') = Len(deact_log) + 1
    /\ Last(deact_log').status = status

C3_FrameOfNoOp ==
    UNCHANGED <<emergency_mode_active, emergency_mode_reason,
                emergency_mode_activated_at, active_cases, system_metrics,
                act_call, caseVars>>

C4_MissingPriorityMonitored ==
    (fn_output.router # None /\ fn_input.priority = Missing)
      => fn_output.router = "monitoring"

\* C5: a priority outside the recognised values is routed to "monitoring",
\* and the label the router returns is always one of critical, urgent,
\* routine and monitoring.
RecognisedPriorities ==
    {"critical", "life_threatening", "urgent", "high", "routine", "normal"}
RoutingLabels == {"critical", "urgent", "routine", "monitoring"}

C5_UnrecognisedPriorityMonitored ==
    fn_output.router # None
      => /\ fn_output.router \in RoutingLabels
         /\ fn_input.priority \notin RecognisedPriorities \cup {Missing}
              => fn_output.router = "monitoring"

C5_Witness ==
    /\ fn_input.priority = "unknown"
    /\ fn_output.router = "monitoring"

\* C6: the workflow type chosen for a case is the one the six ordered rules
\* give: mass casualty incident, then active emergency mode, then a critical
\* or high priority with more concurrent priority cases than the threshold,
\* then a transfer request, then occupancy above the threshold, and
\* resource_optimization otherwise.
C6_Rule1(in) == in.incident_type = "mass_casualty"
C6_Rule2(in) == in.active
C6_Rule3(in) ==
    /\ in.priority \in {"critical", "high"}
    /\ in.concurrent_priority_cases >= PriorityCasesThreshold + 1
C6_Rule4(in) == in.requires_transfer
C6_Rule5(in) == in.occupancy_percent >= OccupancyThreshold + 1

C6_Reference(in) ==
    CASE C6_Rule1(in) -> "mass_casualty"
      [] ~C6_Rule1(in) /\ C6_Rule2(in) -> "disaster_response"
      [] ~C6_Rule1(in) /\ ~C6_Rule2(in) /\ C6_Rule3(in) ->
            "resource_optimization"
      [] ~C6_Rule1(in) /\ ~C6_Rule2(in) /\ ~C6_Rule3(in) /\ C6_Rule4(in) ->
            "patient_transfer"
      [] ~C6_Rule1(in) /\ ~C6_Rule2(in) /\ ~C6_Rule3(in) /\ ~C6_Rule4(in)
            /\ C6_Rule5(in) -> "surge_capacity"
      [] OTHER -> "resource_optimization"

C6_WorkflowTypeIsReference ==
    fn_output.workflow # None
      => fn_output.workflow = C6_Reference(fn_input)

C6_Witness ==
    /\ fn_output.workflow = "resource_optimization"
    /\ C6_Rule3(fn_input)
    /\ C6_Rule4(fn_input)
    /\ C6_Rule5(fn_input)

C8_ImagingFailureIsError ==
    \A c \in Cases :
        (Returned(c)
            /\ faults[c] \cap {"imaging_analysis_raises", "imaging_analyzer"}
                 # {})
          => /\ case_result[c].status = "error"
             /\ case_result[c].error = "imaging_analysis"

\* C9: a case during which any AI provider call failed returns with status
\* "error"; the failure is never swallowed.
C9_ProviderFailureIsError ==
    \A c \in Cases :
        (Returned(c) /\ faults[c] \cap ProviderFaults # {})
          => case_result[c].status = "error"

\* C10: when a node handler of the pipeline raises, the traversal halts
\* with that node as the last one executed, and process_emergency returns
\* status "error" with the error and the session id.
C10_NodeRaiseHaltsPipeline ==
    \A c \in Cases : \A n \in Nodes :
        (n \o "_raises") \in faults[c]
          => /\ graph_run[c].next = RAISED
             /\ Last(graph_run[c].executed) = n
             /\ PipelineReturned(c) =>
                  /\ ai_results[c].status = "error"
                  /\ ai_results[c].error = n
                  /\ ai_results[c].session_id = c

C10_Witness ==
    \E c \in Cases :
        /\ PipelineReturned(c)
        /\ "imaging_analysis_raises" \in faults[c]
        /\ graph_run[c].executed = <<"intake", "triage", "imaging_analysis">>
        /\ ai_results[c].status = "error"

\* C11: the alerts a processed case raises, and the increase of
\* alerts_generated, number the case's critical findings whose confidence
\* is at or above the threshold of the active emergency policy: the lowered
\* one while an emergency of critical severity is active, the normal one
\* otherwise.
C11_ActiveSeverity ==
    IF ~emergency_mode_active THEN None
    ELSE IF emergency_mode_reason = ReasonOf(1) THEN SeverityOf(1)
    ELSE SeverityOf(2)

C11_ActiveThreshold ==
    IF C11_ActiveSeverity = "critical"
    THEN _configure_emergency_mode("critical").ai_confidence_threshold
    ELSE AutoAlertThreshold

C11_AlertsFollowActivePolicy ==
    [][\A c \in Cases :
        (case_pc[c] = "alerts" /\ case_pc'[c] = "done"
            /\ case_result'[c].status = "completed")
          => system_metrics'.alerts_generated - system_metrics.alerts_generated
               = Cardinality(
                   {i \in 1..Len(case_summary[c].critical_findings) :
                      case_summary[c].critical_findings[i]
                        >= C11_ActiveThreshold})]_vars

\* C12: a failure while an alert is raised never fails the case: the case
\* whose pipeline and workflow succeeded still returns the completed
\* summary and its recorded status stays completed.
C12_AlertFailureKeepsCaseCompleted ==
    \A c \in Cases :
        (Returned(c) /\ "alert_raises" \in faults[c])
          => /\ case_result[c].status = "completed"
             /\ active_cases[c] = "completed"

\* C13: once the recorded status of a case is completed or error, no later
\* step changes it.
C13_RecordedStatusIsTerminal ==
    [][\A c \in Cases :
        active_cases[c] \in {"completed", "error"}
          => active_cases'[c] = active_cases[c]]_vars

\* C14: when triage stores the priority "unknown", the router returns
\* "monitoring", the only node run after triage is monitoring, and the run
\* ends with workflow_status "monitoring".
TriageStored(c, priority) ==
    /\ Len(graph_run[c].executed) >= 2
    /\ graph_run[c].executed[2] = "triage"
    /\ state[c].triage_results.priority = priority

C14_UnknownPriorityIsMonitored ==
    \A c \in Cases :
        TriageStored(c, "unknown")
          => /\ _triage_router(state[c].triage_results) = "monitoring"
             /\ graph_run[c].executed \in
                  {<<"intake", "triage">>, <<"intake", "triage", "monitoring">>}
             /\ graph_run[c].next \in {"monitoring", END}
             /\ graph_run[c].next = END =>
                  state[c].workflow_status = "monitoring"
             /\ PipelineReturned(c) => ai_results[c].status = "monitoring"

C14_Witness ==
    \E c \in Cases :
        /\ TriageStored(c, "unknown")
        /\ PipelineReturned(c)
        /\ Last(graph_run[c].executed) = "monitoring"
        /\ state[c].workflow_status = "monitoring"

\* C15: within one session the nodes run one after another along the edges
\* of the graph: the first is intake, every later node runs directly after
\* one of its predecessors, imaging_analysis runs exactly when the router
\* label is critical or urgent, and a session is at one node at most.
Predecessors ==
    [intake |-> {},
     triage |-> {"intake"},
     imaging_analysis |-> {"triage"},
     clinical_decision |-> {"triage", "imaging_analysis"},
     monitoring |-> {"triage"},
     resource_optimization |-> {"clinical_decision"},
     emergency_coordination |-> {"resource_optimization"}]

InExecuted(c, node) ==
    \E i \in 1..Len(graph_run[c].executed) : graph_run[c].executed[i] = node

\* Triage has returned and the engine has moved on.
PastTriage(c) ==
    /\ InExecuted(c, "triage")
    /\ graph_run[c].error # "triage"

C15_NodesRunInGraphOrder ==
    \A c \in Cases :
        LET executed == graph_run[c].executed
            label == _triage_router(state[c].triage_results)
        IN  /\ executed # <<>> => executed[1] = EntryPoint
            /\ \A i \in 2..Len(executed) :
                 executed[i - 1] \in Predecessors[executed[i]]
            /\ Cardinality({n \in Nodes : AtNode(c, n)}) <= 1
            /\ \A n \in Nodes : AtNode(c, n) /\ executed # <<>> =>
                 Last(executed) \in Predecessors[n]
            /\ PastTriage(c) =>
                 ((InExecuted(c, "imaging_analysis")
                      \/ graph_run[c].next = "imaging_analysis")
                   <=> label \in {"critical", "urgent"})

C15_Witness ==
    \E c \in Cases :
        /\ graph_run[c].next = END
        /\ graph_run[c].executed =
             <<"intake", "triage", "imaging_analysis", "clinical_decision",
               "resource_optimization", "emergency_coordination">>

ModeState ==
    <<emergency_mode_active, emergency_mode_reason,
      emergency_mode_activated_at>>

ActivateEnters ==
    \E k \in ActCalls : act_call[k].pc = "idle" /\ act_call'[k].pc = "running"

DeactivateRuns == Len(deact_log') = Len(deact_log) + 1

C17_ModeChangesOnlyByControl ==
    [][/\ ModeState' # ModeState => ActivateEnters \/ DeactivateRuns
       /\ (case_pc' # case_pc \/ graph_run' # graph_run)
            => ModeState' = ModeState
       /\ fn_output' # fn_output => ModeState' = ModeState]_vars

C17_Witness ==
    /\ emergency_mode_active
    /\ emergency_mode_reason = ReasonOf(1)
    /\ \E c \in Cases : Returned(c) /\ mode_at_start[c]
    /\ fn_output.op = "coordinate_patient_transfer"

\* C18: when a deactivate on a system in emergency mode returns
\* "deactivated", the emergency state is the initial one again (ERAIFCore:
\* mode NORMAL, no emergency_id, no emergency_start_time; facade: not
\* active, no reason, no activation time).
CoreModeState == <<emergency_mode, emergency_id, emergency_start_time>>

CoreReturns(k, status) ==
    /\ core_call[k].pc # "done"
    /\ core_call'[k].pc = "done"
    /\ core_call'[k].result.status = status

C18_DeactivateRestoresInitialState ==
    [][/\ \A k \in CoreCalls :
            CoreReturns(k, "deactivated")
              => CoreModeState' = <<"NORMAL", 0, 0>>
       /\ (DeactivateRuns /\ Last(deact_log').status = "deactivated")
            => ModeState' = <<FALSE, None, 0>>]_vars

C18_Witness ==
    /\ \E j, k \in CoreCalls :
          /\ core_call[j].result.status = "activated"
          /\ core_call[k].result.status = "deactivated"
          /\ core_call[k].result.emergency_id = j
    /\ CoreModeState = <<"NORMAL", 0, 0>>
    /\ deact_log # <<>>
    /\ deact_log[1] = [status |-> "deactivated", previous_reason |-> ReasonOf(1)]
    /\ ModeState = <<FALSE, None, 0>>

\* C19: when several activate calls overlap on ERAIFCore (and the monitor
\* answers each), once all have returned at least one has returned
\* "activated" and the mode is not NORMAL, with emergency_id and
\* emergency_start_time set.
C19_ConcurrentActivatesActivate ==
    (\A k \in CoreCalls :
        /\ core_call[k].op = "activate"
        /\ core_call[k].pc = "done"
        /\ core_call[k].result.error # "monitor")
      => /\ \E k \in CoreCalls : core_call[k].result.status = "activated"
         /\ emergency_mode # "NORMAL"
         /\ emergency_id # 0
         /\ emergency_start_time # 0

C21_ModeOfConnectivity(connectivity) ==
    IF connectivity < 30 THEN "DISASTER"
    ELSE IF connectivity < 70 THEN "HYBRID"
    ELSE "EMERGENCY"

C21_ModeFollowsConnectivity ==
    /\ [][\A k \in CoreCalls :
            core_call'[k].connectivity # core_call[k].connectivity
              => /\ emergency_mode' =
                      C21_ModeOfConnectivity(core_call'[k].connectivity)
                 /\ emergency_mode' # "NORMAL"]_vars
    /\ [](\A k \in CoreCalls :
            (/\ core_call[k].op = "activate"
             /\ core_call[k].pc = "done"
             /\ core_call[k].connectivity # 0
             /\ \A j \in CoreCalls : core_call[j].op # "deactivate")
              => core_call[k].result.status = "activated")

\* C22: when an activate returns its response the emergency queue is empty,
\* and every study the call found in the queue has been processed exactly
\* once; studies are processed in the order they arrived.
C22_QueueProcessedInOrder ==
    /\ [][\A k \in CoreCalls :
            CoreReturns(k, "activated")
              => /\ emergency_queue' = <<>>
                 /\ \A i \in 1..Len(core_call[k].queued) :
                      Cardinality({j \in 1..Len(processed_studies') :
                          processed_studies'[j] = core_call[k].queued[i]}) = 1
         ]_vars
    /\ [](\A i, j \in 1..Len(processed_studies) :
            i < j => processed_studies[i] < processed_studies[j])

C22_Witness ==
    \E k \in CoreCalls :
        /\ core_call[k].result.status = "activated"
        /\ core_call[k].queued = <<1, 2>>
        /\ processed_studies = <<1, 2>>
        /\ emergency_queue = <<>>

\* C28: the studies put in the emergency queue while emergency mode is
\* active have been processed and removed when deactivate returns
\* "deactivated": the queue is empty then and every study that arrived has
\* been processed.
C28_QueuedStudiesSynchronised ==
    [][\A k \in CoreCalls :
        CoreReturns(k, "deactivated")
          => /\ emergency_queue' = <<>>
             /\ \A study \in Studies :
                  StudyArrived(study) =>
                    \E i \in 1..Len(processed_studies') :
                        processed_studies'[i] = study]_vars

\* C27: when shutdown returns, the mode is NORMAL and system_status is
\* "stopped"; and when shutdown found a mode other than NORMAL, its
\* deactivate has returned "deactivated" before any handler is shut down.
C27_ShutdownReturns ==
    /\ life_call.shutdown # "done"
    /\ life_call'.shutdown = "done"

C27_ShutdownLeavesNormalStopped ==
    [][/\ C27_ShutdownReturns
            => /\ emergency_mode' = "NORMAL"
               /\ system_status' = "stopped"
       /\ (/\ life_call.shutdown \in DOMAIN AfterHandler
           /\ handlers_up' # handlers_up
           /\ life_call.mode_found # "NORMAL")
            => /\ life_call.deactivate # 0
               /\ core_call[life_call.deactivate].result.status
                    = "deactivated"]_vars

\* C23: the configuration produced for severity critical has
\* priority_threshold HIGH, compression, batching and the reduced timeout
\* switched on, and a confidence threshold strictly below the one produced
\* for any other severity; no other severity gets a stricter
\* priority_threshold than critical does.
C23_Strictness == [MEDIUM |-> 1, HIGH |-> 2]

C23_CriticalPolicyIsStrictest ==
    \A a, b \in Activations :
        (fn_input[a] = "critical" /\ fn_output[a] # NoConfig)
          => /\ fn_output[a].priority_threshold = "HIGH"
             /\ fn_output[a].compression_enabled
             /\ fn_output[a].batch_processing
             /\ fn_output[a].timeout_reduced
             /\ (fn_input[b] # "critical" /\ fn_output[b] # NoConfig)
                  => /\ fn_output[a].ai_confidence_threshold
                          < fn_output[b].ai_confidence_threshold
                     /\ C23_Strictness[fn_output[b].priority_threshold]
                          <= C23_Strictness[fn_output[a].priority_threshold]

C23_Witness ==
    /\ fn_input = [first |-> "critical", second |-> "high"]
    /\ fn_output["first"].ai_confidence_threshold = 60
    /\ fn_output["second"].ai_confidence_threshold = 70
    /\ fn_output["second"].priority_threshold = "HIGH"

\* C24: on both conditional edges the label the router returns is a key of
\* the edge's mapping: the triage router's once triage has stored its
\* results, the monitoring router's whenever ongoing_monitoring has run; no
\* run of either graph ends in a routing error.
C24_RouterLabelsAreMapped ==
    /\ \A c \in Cases :
          /\ PastTriage(c) =>
               _triage_router(state[c].triage_results) \in DOMAIN TriageEdges
          /\ graph_run[c].error # "routing"
    /\ workflow_state.workflow_type = "mass_casualty" =>
          _monitoring_router(workflow_state) \in DOMAIN MonitoringEdges
    /\ workflow_run.error # "routing"

C24_Witness ==
    /\ \E c \in Cases :
          /\ PipelineReturned(c)
          /\ state[c].triage_results.priority = "unknown"
          /\ InExecuted(c, "monitoring")
    /\ workflow_run.next = "returned"
    /\ workflow_state.monitoring = "winding_down"
    /\ workflow_result.status = "resolved"

\* C26 as stated: once a node handler has returned, current_step is exactly
\* the name under which the node is registered, in the case pipeline and in
\* the five workflows.
C26_CurrentStepIsNodeName ==
    /\ \A c \in Cases :
          (graph_run[c].executed # <<>> /\ graph_run[c].error = None)
            => state[c].current_step = Last(graph_run[c].executed)
    /\ workflow_run.executed # <<>>
          => workflow_state.current_step = Last(workflow_run.executed)

\* C26 as amended: once a node handler has returned, current_step tells
\* which node ran last: it is the node's registered name followed by
\* "_complete", except after monitoring ("monitoring_active"), after
\* ongoing_monitoring (the registered name itself) and after
\* incident_resolution ("incident_resolved").
C26_StepAfter(node) ==
    CASE node = "monitoring" -> "monitoring_active"
      [] node = "ongoing_monitoring" -> "ongoing_monitoring"
      [] node = "incident_resolution" -> "incident_resolved"
      [] OTHER -> node \o "_complete"

C26_CurrentStepTellsLastNode ==
    /\ \A c \in Cases :
          (graph_run[c].executed # <<>> /\ graph_run[c].error = None)
            => state[c].current_step = C26_StepAfter(Last(graph_run[c].executed))
    /\ workflow_run.executed # <<>>
          => workflow_state.current_step
               = C26_StepAfter(Last(workflow_run.executed))

C26_Witness ==
    /\ \E c \in Cases :
          /\ InExecuted(c, "emergency_coordination")
          /\ graph_run[c].error = None
          /\ state[c].current_step = "emergency_coordination_complete"
    /\ workflow_run.executed # <<>>
    /\ Last(workflow_run.executed) = "surge_monitoring"
    /\ workflow_state.current_step = "surge_monitoring_complete"

\* C30: every run of the mass_casualty workflow ends: ongoing_monitoring
\* runs 13 times and no more, its 13th run finding 16 events in the
\* timeline; the router then returns "resolve", incident_resolution runs
\* once, and execute_workflow returns the status "resolved".
C30_Runs(node) ==
    Cardinality({i \in 1..Len(workflow_run.executed) :
                    workflow_run.executed[i] = node})

C30_MassCasualtyResolves ==
    /\ [](workflow_state.workflow_type = "mass_casualty"
            => /\ C30_Runs("ongoing_monitoring") <= 13
               /\ C30_Runs("incident_resolution") <= 1
               /\ workflow_run.next = "incident_resolution"
                    => /\ C30_Runs("ongoing_monitoring") = 13
                       /\ Len(workflow_state.timeline) = 16 + 1
                       /\ _monitoring_router(workflow_state) = "resolve"
               /\ workflow_run.next \in {END, "returned"}
                    => /\ C30_Runs("ongoing_monitoring") = 13
                       /\ C30_Runs("incident_resolution") = 1
                       /\ workflow_state.status = "resolved")
    /\ (workflow_state.workflow_type = "mass_casualty")
         ~> (workflow_run.next = "returned"
               /\ workflow_result.status = "resolved")

C30_Witness ==
    /\ workflow_state.workflow_type = "mass_casualty"
    /\ workflow_run.next = "returned"
    /\ workflow_result.status = "resolved"
    /\ Len(workflow_run.executed) = 4 + 13 + 1

C25_ButIntakeTime(s) == [s EXCEPT !.intake_timestamp = None]

C29_CountIsCasesInFlight ==
    [][GetSystemStatus =>
         fn_output'.result.active_cases = Cardinality(list_active_cases)]_vars

\* C31: in a run of the mass_casualty workflow the monitoring router never
\* returns "escalate": ongoing_monitoring is never followed by
\* resource_mobilization, and resource_mobilization, triage_coordination
\* and patient_distribution have each run exactly once by the time
\* ongoing_monitoring runs, and never run again.
C31_NeverEscalates ==
    workflow_state.workflow_type = "mass_casualty" =>
        LET executed == workflow_run.executed
            runs(node) == Cardinality({i \in 1..Len(executed) :
                                          executed[i] = node})
            once == {"resource_mobilization", "triage_coordination",
                     "patient_distribution"}
        IN  /\ \A node \in once : runs(node) <= 1
            /\ runs("ongoing_monitoring") > 0 =>
                  /\ \A node \in once : runs(node) = 1
                  /\ workflow_state.monitoring # "escalating"
            /\ \A i \in 1..Len(executed) - 1 :
                  executed[i] = "ongoing_monitoring"
                    => executed[i + 1] # "resource_mobilization"
            /\ executed # <<>> /\ executed[Len(executed)] = "ongoing_monitoring"
                  => /\ _monitoring_router(workflow_state) # "escalate"
                     /\ workflow_run.next # "resource_mobilization"

\* A run that went through its monitoring loop and returned.
C31_Witness ==
    /\ workflow_state.workflow_type = "mass_casualty"
    /\ workflow_run.next = "returned"
    /\ Cardinality({i \in 1..Len(workflow_run.executed) :
                       workflow_run.executed[i] = "ongoing_monitoring"}) > 1
    /\ Cardinality({i \in 1..Len(workflow_run.executed) :
                       workflow_run.executed[i] = "resource_mobilization"}) = 1

\* C32: whenever no activate or deactivate call of ERAIFCore is in
\* progress, emergency_id and emergency_start_time are None exactly when
\* emergency_mode is NORMAL, also after an activate call that raised.
C32_IdAndTimeSetExactlyInEmergency ==
    (\A k \in CoreCalls : core_call[k].pc \in {"idle", "done"}) =>
        /\ (emergency_id = 0) <=> (emergency_mode = "NORMAL")
        /\ (emergency_start_time = 0) <=> (emergency_mode = "NORMAL")

\* C33: once overlapping activate and deactivate calls on ERAIFCore have
\* all finished (none of them having raised), every protocol handler was
\* last given the mode ERAIFCore is in, and the state is one a sequential
\* order of the calls leaves: in an emergency mode with its id and
\* emergency monitoring running, or NORMAL with neither.
C33_HandlersAgreeWithCore ==
    (/\ \A k \in CoreCalls : core_call[k].pc \in {"idle", "done"}
     /\ \A k \in CoreCalls : core_call[k].result.status # "raised")
      => /\ \A p \in Protocols : protocol_mode[p] = emergency_mode
         /\ (emergency_mode = "NORMAL") <=> (emergency_id = 0)
         /\ (emergency_mode = "NORMAL") <=> ~emergency_monitoring

\* C34: a response "activated" of ERAIFCore carries the emergency_id that
\* the same call generated (the uuid of call k is k), so no two calls
\* report the same emergency_id.
C34_ResponseCarriesOwnId ==
    /\ \A k \in CoreCalls :
          core_call[k].result.status = "activated"
            => core_call[k].result.emergency_id = k
    /\ \A j, k \in CoreCalls :
          (/\ j # k
           /\ core_call[j].result.status = "activated"
           /\ core_call[k].result.status = "activated")
            => core_call[j].result.emergency_id
                  # core_call[k].result.emergency_id

\* C35: whenever no case is in flight, cases_processed, and likewise
\* ai_analyses_completed and workflows_executed, is the number of case
\* records whose status is completed; a case that ended with the status
\* error has counted in none of them.
C35_CountersCountCompletedCases ==
    (\A c \in Cases : active_cases[c] # "processing") =>
        LET completed ==
                Cardinality({c \in Cases : active_cases[c] = "completed"})
        IN  /\ system_metrics.cases_processed = completed
            /\ system_metrics.ai_analyses_completed = completed
            /\ system_metrics.workflows_executed = completed

\* C36: a case whose triage priority is "immediate" goes from triage to
\* imaging_analysis and never to monitoring; and of two priorities the
\* analyzer can produce, the more urgent one is not routed to a less
\* intensive branch (monitoring, then clinical_decision, then
\* imaging_analysis) than the less urgent one.
C36_Urgency ==
    [immediate |-> 4, urgent |-> 3, less_urgent |-> 2, non_urgent |-> 1]

C36_Intensity ==
    [monitoring |-> 1, clinical_decision |-> 2, imaging_analysis |-> 3]

C36_BranchOf(priority) ==
    TriageEdges[_triage_router(
        analyze_emergency([kind |-> "ok", priority |-> priority]))]

C36_ImmediateIsImaged ==
    /\ \A r \in Replays :
          (/\ replay_input.triage = [kind |-> "ok", priority |-> "immediate"]
           /\ Len(replay_run[r].executed) >= 2)
            => /\ Len(replay_run[r].executed) = 2
                    => replay_run[r].next = "imaging_analysis"
               /\ Len(replay_run[r].executed) > 2
                    => replay_run[r].executed[3] = "imaging_analysis"
               /\ \A i \in 1..Len(replay_run[r].executed) :
                    replay_run[r].executed[i] # "monitoring"
               /\ replay_run[r].next # "monitoring"
    /\ \A p, q \in AnalyzerPriorities :
          C36_Urgency[p] > C36_Urgency[q]
            => C36_Intensity[C36_BranchOf(p)] >= C36_Intensity[C36_BranchOf(q)]

\* C37: a deactivate called on ERAIFCore while the mode is NORMAL returns
\* "already_normal" at once and changes nothing: no handler is given a
\* mode, emergency monitoring is not stopped, and emergency_id,
\* emergency_start_time, the mode and the emergency queue stay as they
\* were.
C37_DeactivateInNormalIsNoOp ==
    [][\A k \in CoreCalls :
         /\ (/\ core_call[k].pc = "idle"
             /\ core_call'[k].op = "deactivate"
             /\ emergency_mode = "NORMAL")
              => /\ core_call'[k].pc = "done"
                 /\ core_call'[k].result.status = "already_normal"
         /\ CoreReturns(k, "already_normal")
              => /\ emergency_mode = "NORMAL"
                 /\ UNCHANGED <<emergency_mode, emergency_id,
                                emergency_start_time, protocol_mode,
                                emergency_monitoring, emergency_queue,
                                processed_studies>>]_vars

\* A deactivate answered "already_normal" where there was something to
\* reset: a handler last given an emergency mode, or emergency monitoring
\* running, and a study in the queue.
C37_Witness ==
    \E k \in CoreCalls :
        /\ core_call[k].result.status = "already_normal"
        /\ emergency_mode = "NORMAL"
        /\ emergency_queue # <<>>
        /\ \/ \E p \in Protocols : protocol_mode[p] # "NORMAL"
           \/ emergency_monitoring

====
